---- MODULE Spec2Model ----
(***************************************************************************)
(* A model of the ray tracer's core: the intersection collection and hit   *)
(* selection (intersection.rs), the refractive-index containment walk of   *)
(* prepare_computations (intersection.rs) and the recursive colour         *)
(* composition of World (world.rs).                                        *)
(*                                                                         *)
(* Numbers.  f64 values are modelled by integers.  Lengths and ray         *)
(* parameters t are counted in units of EPSILON (macros.rs:1), refractive  *)
(* indices and material coefficients in halves or tenths as stated at each *)
(* definition.  The one f64 value that is no number, NaN, is the sentinel  *)
(* NaN; every comparison goes through FLt/FGt/FGe, which are false on it,  *)
(* as the IEEE comparisons are.                                            *)
(***************************************************************************)
EXTENDS Integers, Sequences, FiniteSets, TLC

\* ------------------------------------------------------------- bounds
\* longest intersection collection built by push/append
MaxLen == 3

\* longest intersection list, of those drawn freely, handed to
\* prepare_computations
MaxWalk == 4

\* largest depth budget given to color_at
MaxRemaining == 2

\* most lights added to the world
MaxLights == 2

\* most objects added to the world
MaxObjects == 2

\* ------------------------------------------------------------- f64
NaN == 99

is_nan(t) == t = NaN

FLt(a, b) == ~is_nan(a) /\ ~is_nan(b) /\ a < b

FGt(a, b) == ~is_nan(a) /\ ~is_nan(b) /\ a > b

FGe(a, b) == ~is_nan(a) /\ ~is_nan(b) /\ a >= b

FLe(a, b) == ~is_nan(a) /\ ~is_nan(b) /\ a <= b

\* ------------------------------------------------------------- state
VARIABLES
    xs,      \* an Intersections collection, built from empty by push/append
    xs2,     \* a second collection, given the same intersections in another order
    phase    \* "build": xs grows; "replay": xs2 is being given xs's intersections

varsI == <<xs, xs2, phase>>

\* one call of prepare_computations(r, hit_index, wxs), its loop unrolled
VARIABLES
    wxs,         \* the argument xs
    hit_index,   \* the argument hit_index
    idx,         \* how many elements of wxs the loop has processed
    containers,  \* the local Vec<(Uuid, f64)>
    n1,          \* the local n1 (tenths)
    n2,          \* the local n2 (tenths)
    wpc          \* "loop" inside the for loop, "done" after it

varsW == <<wxs, hit_index, idx, containers, n1, n2, wpc>>

\* a World, and one color_at call on it with the calls it nests
VARIABLES
    objects,   \* World::objects
    lights,    \* World::lights
    wphase,    \* "setup": the scene is being built; "render": color_at is
               \* running; "done": it has returned
    stack,     \* the color_at calls in progress, the outermost first
    ret,       \* the last return of a color_at call
    result     \* what the outermost color_at returned

varsR == <<objects, lights, wphase, stack, ret, result>>

\* one call of a function that touches no state of its own
VARIABLES
    call,   \* the function being called, "idle" when none is
    args,   \* its arguments
    out     \* what it returned, or how it failed; <<>> before it returns

varsF == <<call, args, out>>

vars == <<varsI, varsW, varsR, varsF>>

IdleF ==
    /\ call = "idle"
    /\ args = << >>
    /\ out = << >>

\* ------------------------------------------------------------- Object
\* Material coefficients are counted in tenths (10 is 1.0), colours on one
\* channel in units of 1/White.
\* Color::white(), Color::black()
White == 8000

Black == 0

\* colour * f64 (tenths) and colour * colour
Mul(c, k) == (c * k) \div 10

MulC(c, d) == (c * d) \div White

\* impl Default for Material
DefaultMaterial ==
    [ color |-> White, ambient |-> 1, diffuse |-> 9, specular |-> 9,
      shininess |-> 2000, reflective |-> 0, transparency |-> 0,
      refractive_index |-> 10 ]

\* the Material setters
set_ambient(m, a) == [m EXCEPT !.ambient = a]

set_diffuse(m, d) == [m EXCEPT !.diffuse = d]

set_specular(m, sp) == [m EXCEPT !.specular = sp]

set_reflective(m, r) == [m EXCEPT !.reflective = r]

set_transparency(m, t) == [m EXCEPT !.transparency = t]

set_refractive_index(m, ri) == [m EXCEPT !.refractive_index = ri]

\* Object::plane(), given the identity token u that construction attaches.
\* The scenes of this model are planes translated along y, so a Transform is
\* the y of its translation (in units of EPSILON), Transform::default() being 0.
plane(u) ==
    [ uuid |-> u, shape |-> "Plane", transform |-> 0, material |-> DefaultMaterial ]

\* Object::set_material, Object::set_transform(Transform::translation(0, y, 0))
set_material(o, m) == [o EXCEPT !.material = m]

set_transform(o, y) == [o EXCEPT !.transform = y]

\* an object of identity u with refractive index ri and every other field default
Obj(u, ri) == set_material(plane(u), set_refractive_index(DefaultMaterial, ri))

\* ------------------------------------------------------------- Intersection
Intersection(t, o) == [t |-> t, object |-> o]

\* the comparator, were NaN the least value instead of the greatest
cmp_nan_least(a, b) ==
    IF is_nan(a.t) THEN "Less"
    ELSE IF is_nan(b.t) THEN "Greater"
    ELSE IF a.t > b.t THEN "Greater"
    ELSE IF a.t < b.t THEN "Less"
    ELSE "Equal"

\* impl Ord for Intersection
cmp(a, b) ==
    IF is_nan(a.t) THEN "Greater"
    ELSE IF is_nan(b.t) THEN "Less"
    ELSE IF a.t > b.t THEN "Greater"
    ELSE IF a.t < b.t THEN "Less"
    ELSE "Equal"

\* the orderings of v: v read through each permutation of its indices
Orderings(v) ==
    { [i \in 1..Len(v) |-> v[p[i]]] : p \in Permutations(1..Len(v)) }

\* the slice left as it is
sort_none(v) == { v }

\* slice::sort_unstable under cmp: some ordering of v in which no element is
\* less than its left neighbour; which of the equal elements comes first is
\* not fixed by the sort.
sort_unstable(v) ==
    { s \in Orderings(v) :
        \A i \in 1..(Len(v) - 1) : cmp(s[i + 1], s[i]) # "Less" }

\* Intersections::push: the possible contents after v.push(element)
push_unsorted(v, element) == { Append(v, element) }

push(v, element) == sort_unstable(Append(v, element))

\* Intersections::append: the possible contents after v.append(elements)
append_unsorted(v, elements) == { v \o elements }

append(v, elements) == sort_unstable(v \o elements)

None == [some |-> FALSE]

Some(index, i) == [some |-> TRUE, idx |-> index, t |-> i.t, object |-> i.object]

\* Intersections::hit: the first element, by position, with t >= 0.
\* idx counts from 0 as the Vec's index does.
hit_positive(v) ==
    LET found == { k \in 1..Len(v) : FGt(v[k].t, 0) } IN
    IF found = {} THEN None
    ELSE LET k == CHOOSE k \in found : \A j \in found : k <= j IN Some(k - 1, v[k])

hit(v) ==
    LET found == { k \in 1..Len(v) : FGe(v[k].t, 0) } IN
    IF found = {} THEN None
    ELSE LET k == CHOOSE k \in found : \A j \in found : k <= j IN Some(k - 1, v[k])

\* ------------------------------------------------------------- prepare_computations
\* the last entry's refractive index, 1.0 for an empty stack
top_index(c) == IF Len(c) = 0 THEN 10 ELSE c[Len(c)].ri

\* c with the entry at position k removed (Vec::remove)
remove(c, k) == [ j \in 1..(Len(c) - 1) |-> IF j < k THEN c[j] ELSE c[j + 1] ]

\* the toggle, were entries matched by the material value instead of the uuid
toggle_by_value(c, o) ==
    LET found == { k \in 1..Len(c) : c[k].ri = o.material.refractive_index } IN
    IF found # {}
    THEN remove(c, CHOOSE k \in found : \A j \in found : k <= j)
    ELSE Append(c, [uuid |-> o.uuid, ri |-> o.material.refractive_index])

\* the toggle, were an entry removed only from the top of the stack
toggle_top_only(c, o) ==
    IF Len(c) > 0 /\ c[Len(c)].uuid = o.uuid
    THEN remove(c, Len(c))
    ELSE Append(c, [uuid |-> o.uuid, ri |-> o.material.refractive_index])

\* the toggle, were the entry removed by Vec::swap_remove, which puts the last
\* entry in its place
toggle_swap_remove(c, o) ==
    LET found == { k \in 1..Len(c) : c[k].uuid = o.uuid } IN
    IF found # {}
    THEN LET k == CHOOSE k \in found : \A j \in found : k <= j
         IN  [ j \in 1..(Len(c) - 1) |-> IF j = k THEN c[Len(c)] ELSE c[j] ]
    ELSE Append(c, [uuid |-> o.uuid, ri |-> o.material.refractive_index])

\* the toggle of one intersection's object (lines 92-96): remove the first
\* entry whose uuid is the object's, or push (uuid, refractive_index)
toggle(c, o) ==
    LET found == { k \in 1..Len(c) : c[k].uuid = o.uuid } IN
    IF found # {}
    THEN remove(c, CHOOSE k \in found : \A j \in found : k <= j)
    ELSE Append(c, [uuid |-> o.uuid, ri |-> o.material.refractive_index])

\* one iteration of the for loop on element i at loop index k (from 0), from
\* the locals st = [containers, n1, n2, done]
walk_step(st, i, k, h) ==
    LET c == toggle(st.containers, i.object) IN
    [ containers |-> c,
      n1 |-> IF k = h THEN top_index(st.containers) ELSE st.n1,
      n2 |-> IF k = h THEN top_index(c) ELSE st.n2,
      done |-> k = h ]

\* the inputs: lists over three glass objects of indices 1.5, 2.0, 2.5 and a
\* fourth, constructed apart from the first and equal to it in every field
\* but the identity
ObjA == Obj(1, 15)

ObjB == Obj(2, 20)

ObjC == Obj(3, 25)

ObjA2 == Obj(4, 15)

ObjsW == { ObjA, ObjB, ObjC, ObjA2 }

\* the list of the given objects, at ascending t
ListOf(os) == [ k \in 1..Len(os) |-> Intersection(k, os[k]) ]

\* three overlapping objects hit in the order A, B, C, B, C, A
\* (tests::finding_n1_and_n2_at_various_intersections)
ListABCBCA == ListOf(<<ObjA, ObjB, ObjC, ObjB, ObjC, ObjA>>)

WalkLists ==
    UNION { { ListOf(os) : os \in [1..n -> ObjsW] } : n \in 0..MaxWalk }
        \cup { ListABCBCA }

IdleW ==
    /\ wxs = <<>>
    /\ hit_index = 0
    /\ idx = 0
    /\ containers = <<>>
    /\ n1 = 10
    /\ n2 = 10
    /\ wpc = "idle"

\* entry of prepare_computations: lines 79-81
InitW ==
    /\ wxs \in WalkLists
    /\ hit_index \in 0..Len(wxs)
    /\ idx = 0
    /\ containers = <<>>
    /\ n1 = 10
    /\ n2 = 10
    /\ wpc = "loop"

\* one iteration of the loop
WalkStep ==
    /\ wpc = "loop"
    /\ idx < Len(wxs)
    /\ LET st == walk_step([containers |-> containers, n1 |-> n1, n2 |-> n2,
                            done |-> FALSE], wxs[idx + 1], idx, hit_index) IN
         /\ containers' = st.containers
         /\ n1' = st.n1
         /\ n2' = st.n2
         /\ wpc' = IF st.done THEN "done" ELSE "loop"
    /\ idx' = idx + 1
    /\ UNCHANGED <<wxs, hit_index>>
    /\ UNCHANGED varsI
    /\ UNCHANGED varsR
    /\ UNCHANGED varsF

\* the iterator is exhausted before hit_index was met
WalkEnd ==
    /\ wpc = "loop"
    /\ idx = Len(wxs)
    /\ wpc' = "done"
    /\ UNCHANGED <<wxs, hit_index, idx, containers, n1, n2>>
    /\ UNCHANGED varsI
    /\ UNCHANGED varsR
    /\ UNCHANGED varsF


\* ------------------------------------------------------------- World
\* The scenes are planes parallel to the local XZ plane, translated along y.
\* Such a scene looks the same from every x and z, so a point is its y (in
\* units of EPSILON) and a ray is the y of its origin, the sign dir of
\* direction.y and s2 = <<num, den>>, the fraction 1 - direction.y^2 (the
\* squared sine of its angle to the y axis; directions are unit vectors).
\* A ray parameter t is kept as t * |direction.y|, the distance it covers along
\* y: for one ray this keeps the order, the sign and the ties of the t's, and
\* for the shadow ray it turns t < distance into a comparison of y distances.
EPSILON == 1

\* 1 / EPSILON^2, EPSILON as the pure number 1.0e-4
EpsInvSq == 100000000

Ray(o, d, sq) == [origin |-> o, dir |-> d, s2 |-> sq]

PointLight(pos, c) == [position |-> pos, intensity |-> c]

Sgn(x) == IF x > 0 THEN 1 ELSE IF x < 0 THEN -1 ELSE 0

Abs(x) == IF x < 0 THEN -x ELSE x

\* direction.y^2 >= 1/k, direction.y^2 being 1 - num/den
direction_y_squared_ge(sq, k) == sq[2] - sq[1] >= (sq[2] + k - 1) \div k

\* Object::intersect, Shape::Plane: none when |direction.y| < EPSILON, else one
\* at t = -local_origin.y / direction.y
object_intersect(o, ray) ==
    LET local_origin == ray.origin - o.transform IN
    IF ray.dir # 0 /\ direction_y_squared_ge(ray.s2, EpsInvSq)
    THEN << Intersection((0 - local_origin) * ray.dir, o) >>
    ELSE << >>

RECURSIVE concat_intersections(_, _)
\* every object's intersections, in the order of the objects
concat_intersections(objs, ray) ==
    IF Len(objs) = 0 THEN << >>
    ELSE object_intersect(Head(objs), ray) \o concat_intersections(Tail(objs), ray)

\* World::intersect: the possible lists
world_intersect(objs, ray) == sort_unstable(concat_intersections(objs, ray))

RECURSIVE walk(_, _, _, _)
\* the for loop of prepare_computations from loop index k on
walk(v, h, k, st) ==
    IF k >= Len(v) \/ st.done THEN st
    ELSE walk(v, h, k + 1, walk_step(st, v[k + 1], k, h))

\* Intersection::prepare_computations, self being i
prepare_computations(i, r, index, v) ==
    LET st == walk(v, index, 0,
                   [containers |-> << >>, n1 |-> 10, n2 |-> 10, done |-> FALSE])
        point == r.origin + i.t * r.dir
        eyev == 0 - r.dir
        normal == 1
        inside == normal * eyev < 0
        normalv == IF inside THEN 0 - normal ELSE normal
    IN [ t |-> i.t, object |-> i.object, point |-> point, eyev |-> eyev,
         normalv |-> normalv, inside |-> inside,
         over_point |-> point + normalv * EPSILON,
         under_point |-> point - normalv * EPSILON,
         reflectv |-> r.dir - 2 * normalv * (r.dir * normalv),
         s2 |-> r.s2, n1 |-> st.n1, n2 |-> st.n2 ]

\* x.powf(shininess) for x in tenths, 0 <= x <= 10, at the large shininess of
\* the scenes: 1.0 stays 1.0, anything up to 0.9 vanishes
powf(x, sh) == IF x >= 10 THEN 10 ELSE 0

\* the lighting that takes no account of in_shadow
lighting_unshadowed(m, light, light_dot_normal, reflect_dot_eye, in_shadow) ==
    LET effective_color == MulC(m.color, light.intensity)
        ambient == Mul(effective_color, m.ambient)
        dark == light_dot_normal < 0
        diffuse == IF dark THEN Black
                   ELSE Mul(Mul(effective_color, m.diffuse), light_dot_normal)
        specular == IF dark \/ reflect_dot_eye <= 0 THEN Black
                    ELSE Mul(Mul(light.intensity, m.specular),
                             powf(reflect_dot_eye, m.shininess))
    IN ambient + diffuse + specular

\* Material::lighting, given lightv.normalv and reflectv.eyev (tenths)
lighting(m, light, light_dot_normal, reflect_dot_eye, in_shadow) ==
    LET effective_color == MulC(m.color, light.intensity)
        ambient == Mul(effective_color, m.ambient)
        dark == light_dot_normal < 0 \/ in_shadow
        diffuse == IF dark THEN Black
                   ELSE Mul(Mul(effective_color, m.diffuse), light_dot_normal)
        specular == IF dark \/ reflect_dot_eye <= 0 THEN Black
                    ELSE Mul(Mul(light.intensity, m.specular),
                             powf(reflect_dot_eye, m.shininess))
    IN ambient + diffuse + specular

\* World::is_shadowed once the ray is intersected, v being the list: which of
\* the equal t's comes first in v does not enter
is_shadowed_le(v, distance) == hit(v).some /\ FLe(hit(v).t, distance)

\* the shadow test that would look through the fully transparent objects
is_shadowed_through(v, distance) ==
    LET opaque == SelectSeq(v, LAMBDA i : i.object.material.transparency < 10)
    IN  hit(opaque).some /\ FLt(hit(opaque).t, distance)

is_shadowed(v, distance) == hit(v).some /\ FLt(hit(v).t, distance)

\* the ray World::is_shadowed casts from point toward source, and the distance
shadow_ray(source, point) == Ray(point, Sgn(source - point), <<0, 1>>)

shadow_distance(source, point) == Abs(source - point)

\* the guard of World::reflected_color
reflected_guard_no_budget(m, remaining) == m.reflective = 0

reflected_is_black(m, remaining) == m.reflective = 0 \/ remaining = 0

\* the guard of World::refracted_color
refracted_guard_no_budget(m, remaining) == m.transparency = 0

refracted_is_black(m, remaining) == m.transparency = 0 \/ remaining = 0

RECURSIVE Gcd(_, _)
Gcd(a, b) == IF b = 0 THEN a ELSE Gcd(b, a % b)

\* the fraction num/den in lowest terms
Fraction(num, den) == << num \div Gcd(num, den), den \div Gcd(num, den) >>

\* sin2_t = n_ratio^2 * (1 - cos_i^2) as a fraction, cos_i^2 being 1 - s2
sin2_t(comps) ==
    Fraction(comps.n1 * comps.n1 * comps.s2[1], comps.n2 * comps.n2 * comps.s2[2])

\* sin2_t > 1
never_total_reflection(comps) == FALSE

total_internal_reflection(comps) == sin2_t(comps)[1] > sin2_t(comps)[2]

\* the secondary rays
reflect_ray(comps) == Ray(comps.over_point, comps.reflectv, comps.s2)

\* direction = normalv * (n_ratio * cos_i - cos_t) - eyev * n_ratio: its y is
\* cos_t along the incoming side, and 1 - y^2 is sin2_t
refract_ray(comps) == Ray(comps.under_point, 0 - comps.eyev, sin2_t(comps))

\* the budget handed to a nested color_at
same_remaining(remaining) == remaining

next_remaining(remaining) == remaining - 1

\* the index color_at hands to prepare_computations
first_index(h) == 0

hit_index_of(h) == h.idx

NoComps ==
    [ t |-> 0, object |-> plane(0), point |-> 0, eyev |-> 0, normalv |-> 0,
      inside |-> FALSE, over_point |-> 0, under_point |-> 0, reflectv |-> 0,
      s2 |-> <<0, 1>>, n1 |-> 10, n2 |-> 10 ]

\* a color_at(ray, remaining) call that has just been entered
NewFrame(r, remaining) ==
    [ ray |-> r, remaining |-> remaining, pc |-> "start",
      xs |-> << >>, index |-> 0, comps |-> NoComps,
      li |-> 1, acc |-> Black, shadowed |-> FALSE, surface |-> Black,
      reflected |-> Black, refracted |-> Black,
      rcase |-> "none", rgot |-> Black, fcase |-> "none", fgot |-> Black,
      n_lighting |-> 0, n_reflected |-> 0, n_refracted |-> 0,
      n_rcalls |-> 0, n_fcalls |-> 0 ]

NoReturn == [ kind |-> "none", color |-> Black, frame |-> NewFrame(Ray(0, 0, <<0, 1>>), 0) ]

\* the end of one pass of the fold of shade_hit: surface + reflected + refracted
end_pass(f, refracted, fcase, fgot) ==
    [ f EXCEPT !.refracted = refracted, !.fcase = fcase, !.fgot = fgot,
               !.acc = f.surface + f.reflected + refracted,
               !.li = f.li + 1, !.pc = "light" ]

\* the caller f takes the colour its nested color_at returned
resume(f, color) ==
    IF f.pc = "await_reflected"
    THEN [ f EXCEPT !.rgot = color,
                    !.reflected = Mul(color, f.comps.object.material.reflective),
                    !.rcase = "scaled", !.pc = "refracted" ]
    ELSE end_pass(f, Mul(color, f.comps.object.material.transparency), "scaled", color)

\* the stack once its innermost call has returned color
return_to(stk, color) ==
    IF Len(stk) = 1 THEN << >>
    ELSE LET n == Len(stk) - 1 IN
         [ k \in 1..n |-> IF k = n THEN resume(stk[n], color) ELSE stk[k] ]

Top == stack[Len(stack)]

SetTop(f) == [ stack EXCEPT ![Len(stack)] = f ]

\* nesting the model stops at; color_at itself has no such limit
StackCap == MaxRemaining + 3

\* --- the scene
MatteM == set_specular(set_diffuse(set_ambient(DefaultMaterial, 10), 0), 0)

\* fully reflective
MirrorM == set_reflective(MatteM, 10)

\* half reflective
HalfMirrorM == set_reflective(MatteM, 5)

GlassM == set_refractive_index(set_transparency(MatteM, 5), 15)

ClearM == set_transparency(MatteM, 5)

Materials == { MirrorM, HalfMirrorM, GlassM, ClearM }

\* where the k-th object added lies: the planes alternate between the two
\* sides of y = 0, each farther out than the last on its side (2, -2, 6, ...)
PlaneY(k) == IF k % 2 = 1 THEN 2 * k ELSE 0 - k

\* the position of the k-th light added: above the planes, on the lower
\* plane, between the planes
LightY(k) == IF k = 1 THEN 4 ELSE IF k % 2 = 0 THEN -2 ELSE 0

\* the rays color_at is first called with: from y = 0, up or down, along the
\* y axis or at sine 4/5 to it
FirstRays == { Ray(0, d, sq) : d \in {-1, 1}, sq \in { <<0, 1>>, <<16, 25>> } }

IdleR ==
    /\ objects = << >>
    /\ lights = << >>
    /\ wphase = "idle"
    /\ stack = << >>
    /\ ret = NoReturn
    /\ result = Black

\* World::empty()
InitR ==
    /\ objects = << >>
    /\ lights = << >>
    /\ wphase = "setup"
    /\ stack = << >>
    /\ ret = NoReturn
    /\ result = Black

\* World::add_object
AddObject(m) ==
    /\ wphase = "setup"
    /\ Len(objects) < MaxObjects
    /\ objects' = Append(objects,
                         set_transform(set_material(plane(Len(objects) + 1), m),
                                       PlaneY(Len(objects) + 1)))
    /\ UNCHANGED <<lights, wphase, stack, ret, result>>
    /\ UNCHANGED <<varsI, varsW, varsF>>

\* World::add_light
AddLight ==
    /\ wphase = "setup"
    /\ Len(lights) < MaxLights
    /\ lights' = Append(lights, PointLight(LightY(Len(lights) + 1), White))
    /\ UNCHANGED <<objects, wphase, stack, ret, result>>
    /\ UNCHANGED <<varsI, varsW, varsF>>

\* the outermost call color_at(r, remaining)
Render(r, remaining) ==
    /\ wphase = "setup"
    /\ wphase' = "render"
    /\ stack' = << NewFrame(r, remaining) >>
    /\ UNCHANGED <<objects, lights, ret, result>>
    /\ UNCHANGED <<varsI, varsW, varsF>>

\* the innermost call returns color
Return(kind, color) ==
    /\ stack' = return_to(stack, color)
    /\ ret' = [ kind |-> kind, color |-> color, frame |-> Top ]
    /\ IF Len(stack) = 1
       THEN wphase' = "done" /\ result' = color
       ELSE UNCHANGED <<wphase, result>>
    /\ UNCHANGED <<objects, lights>>
    /\ UNCHANGED <<varsI, varsW, varsF>>

Step(f) ==
    /\ stack' = SetTop(f)
    /\ UNCHANGED <<objects, lights, wphase, ret, result>>
    /\ UNCHANGED <<varsI, varsW, varsF>>

Call(f, callee) ==
    /\ Len(stack) < StackCap
    /\ stack' = Append(SetTop(f), callee)
    /\ UNCHANGED <<objects, lights, wphase, ret, result>>
    /\ UNCHANGED <<varsI, varsW, varsF>>

\* color_at: xs.hit() is None
ColorAtMiss ==
    /\ wphase = "render" /\ Top.pc = "start"
    /\ \E v \in world_intersect(objects, Top.ray) :
         /\ ~hit(v).some
         /\ Return("miss", Black)

\* color_at: the hit and its Computations; shade_hit begins its fold
ColorAtHit ==
    /\ wphase = "render" /\ Top.pc = "start"
    /\ \E v \in world_intersect(objects, Top.ray) :
         /\ hit(v).some
         /\ LET h == hit(v)
                index == hit_index_of(h)
            IN Step([ Top EXCEPT
                 !.xs = v, !.index = index,
                 !.comps = prepare_computations(Intersection(h.t, h.object),
                                                Top.ray, index, v),
                 !.pc = "light" ])

\* shade_hit, one pass of the fold up to the call of reflected_color:
\* is_shadowed and lighting for the light at hand
lit(f) ==
    LET light == lights[f.li]
        comps == f.comps
        lightv == Sgn(light.position - comps.over_point)
        v == CHOOSE v \in world_intersect(objects,
                              shadow_ray(light.position, comps.over_point)) : TRUE
        shadowed == is_shadowed(v, shadow_distance(light.position, comps.over_point))
    IN [ f EXCEPT
           !.shadowed = shadowed,
           !.surface = f.acc + lighting(comps.object.material, light,
                                        10 * lightv * comps.normalv,
                                        10 * lightv * comps.eyev, shadowed),
           !.n_lighting = f.n_lighting + 1 ]

\* shade_hit: the fold is over, its accumulator is returned
ShadeEnd ==
    /\ wphase = "render" /\ Top.pc = "light"
    /\ Top.li > Len(lights)
    /\ Return("shade", Top.acc)

\* one light, then reflected_color: black without a ray
ReflectedBlack ==
    /\ wphase = "render" /\ Top.pc = "light"
    /\ Top.li <= Len(lights)
    /\ reflected_is_black(Top.comps.object.material, Top.remaining)
    /\ Step([ lit(Top) EXCEPT !.reflected = Black, !.rcase = "black",
                              !.n_reflected = Top.n_reflected + 1,
                              !.pc = "refracted" ])

\* one light, then reflected_color: color_at(reflect_ray, remaining - 1)
ReflectedCall ==
    /\ wphase = "render" /\ Top.pc = "light"
    /\ Top.li <= Len(lights)
    /\ ~reflected_is_black(Top.comps.object.material, Top.remaining)
    /\ Call([ lit(Top) EXCEPT !.rcase = "called",
                              !.n_reflected = Top.n_reflected + 1,
                              !.n_rcalls = Top.n_rcalls + 1,
                              !.pc = "await_reflected" ],
            NewFrame(reflect_ray(Top.comps), next_remaining(Top.remaining)))

\* refracted_color: black, the material opaque or the budget spent
RefractedBlack ==
    /\ wphase = "render" /\ Top.pc = "refracted"
    /\ refracted_is_black(Top.comps.object.material, Top.remaining)
    /\ Step([ end_pass(Top, Black, "black", Black) EXCEPT
                 !.n_refracted = Top.n_refracted + 1 ])

\* refracted_color: black under total internal reflection
RefractedTotal ==
    /\ wphase = "render" /\ Top.pc = "refracted"
    /\ ~refracted_is_black(Top.comps.object.material, Top.remaining)
    /\ total_internal_reflection(Top.comps)
    /\ Step([ end_pass(Top, Black, "total", Black) EXCEPT
                 !.n_refracted = Top.n_refracted + 1 ])

\* refracted_color: color_at(refract_ray, remaining - 1)
RefractedCall ==
    /\ wphase = "render" /\ Top.pc = "refracted"
    /\ ~refracted_is_black(Top.comps.object.material, Top.remaining)
    /\ ~total_internal_reflection(Top.comps)
    /\ Call([ Top EXCEPT !.fcase = "called",
                         !.n_refracted = Top.n_refracted + 1,
                         !.n_fcalls = Top.n_fcalls + 1,
                         !.pc = "await_refracted" ],
            NewFrame(refract_ray(Top.comps), next_remaining(Top.remaining)))

\* ------------------------------------------------------------- inputs
TVals == {-1, 0, 1, NaN}

\* two separately constructed objects with equal fields but for the identity
ObjsI == { Obj(1, 10), Obj(2, 10) }

Elems == { Intersection(t, o) : t \in TVals, o \in ObjsI }

\* how many times e occurs in v
Count(v, e) == Cardinality({ k \in 1..Len(v) : v[k] = e })

SameBag(v, w) == Len(v) = Len(w) /\ \A e \in Elems : Count(v, e) = Count(w, e)

\* ------------------------------------------------------------- actions
InitI ==
    /\ xs = <<>>
    /\ xs2 = <<>>
    /\ phase = "build"

IdleI ==
    /\ xs = <<>>
    /\ xs2 = <<>>
    /\ phase = "idle"

\* xs.push(e)
Push(e) ==
    /\ phase = "build"
    /\ Len(xs) < MaxLen
    /\ xs' \in push(xs, e)
    /\ UNCHANGED <<xs2, phase>>
    /\ UNCHANGED varsW
    /\ UNCHANGED varsR
    /\ UNCHANGED varsF

\* xs.append(&mut es): es is any Vec of intersections
AppendAll(es) ==
    /\ phase = "build"
    /\ Len(xs) + Len(es) <= MaxLen
    /\ xs' \in append(xs, es)
    /\ UNCHANGED <<xs2, phase>>
    /\ UNCHANGED varsW
    /\ UNCHANGED varsR
    /\ UNCHANGED varsF

\* a second collection starts empty, to be given the intersections of xs
Replay ==
    /\ phase = "build"
    /\ phase' = "replay"
    /\ UNCHANGED <<xs, xs2>>
    /\ UNCHANGED varsW
    /\ UNCHANGED varsR
    /\ UNCHANGED varsF

\* xs2.push(e), e one of the intersections of xs not yet given to xs2
Push2(e) ==
    /\ phase = "replay"
    /\ Count(xs2, e) < Count(xs, e)
    /\ xs2' \in push(xs2, e)
    /\ UNCHANGED <<xs, phase>>
    /\ UNCHANGED varsW
    /\ UNCHANGED varsR
    /\ UNCHANGED varsF

Init == InitI /\ IdleW /\ IdleR /\ IdleF

Next ==
    \/ \E e \in Elems : Push(e)
    \/ \E e1 \in Elems, e2 \in Elems : AppendAll(<<e1, e2>>)
    \/ Replay
    \/ \E e \in Elems : Push2(e)

Spec == Init /\ [][Next]_vars

InitWalk == IdleI /\ InitW /\ IdleR /\ IdleF

NextWalk == WalkStep \/ WalkEnd

SpecWalk == InitWalk /\ [][NextWalk]_vars

InitWorld == IdleI /\ IdleW /\ InitR /\ IdleF

NextWorld ==
    \/ \E m \in Materials : AddObject(m)
    \/ AddLight
    \/ \E r \in FirstRays, remaining \in 0..MaxRemaining : Render(r, remaining)
    \/ ColorAtMiss
    \/ ColorAtHit
    \/ ShadeEnd
    \/ ReflectedBlack
    \/ ReflectedCall
    \/ RefractedBlack
    \/ RefractedTotal
    \/ RefractedCall

SpecWorld == InitWorld /\ [][NextWorld]_vars

\* ------------------------------------------------------------- C2, C3
\* the positions of v whose t is a number >= 0
NonNeg(v) == { k \in 1..Len(v) : FGe(v[k].t, 0) }

\* hit(v) is an element of v with the smallest non-negative t, at the index it
\* reports, and there is no hit exactly when no t is a number >= 0
HitIsSmallestNonNegative(v) ==
    LET h == hit(v) IN
    /\ h.some <=> NonNeg(v) # {}
    /\ ((\A k \in 1..Len(v) : FLt(v[k].t, 0)) => ~h.some)
    /\ h.some =>
         /\ h.idx + 1 \in NonNeg(v)
         /\ v[h.idx + 1].t = h.t
         /\ v[h.idx + 1].object = h.object
         /\ \A k \in NonNeg(v) : h.t <= v[k].t

\* both collections hold the same intersections, inserted in orders of their own
SameInserted == phase = "replay" /\ SameBag(xs, xs2)

\* the intersections of v that share the hit's t all belong to one object
HitObjectUntied(v) ==
    \A j \in 1..Len(v), k \in 1..Len(v) :
        (v[j].t = hit(v).t /\ v[k].t = hit(v).t) => v[j].object = v[k].object

\* C2 as claimed: hit() is the smallest non-negative t (0 included), None when
\* every t is negative, and the whole result (index, t and object) is the same
\* for every insertion order of the same intersections.
C2_HitOrderIndependent ==
    /\ HitIsSmallestNonNegative(xs)
    /\ HitIsSmallestNonNegative(xs2)
    /\ SameInserted => hit(xs) = hit(xs2)

\* C2 as amended: hit() is an intersection with the smallest non-negative t
\* (0 included), None when every t is negative; its index and its t are the same
\* for every insertion order of the same intersections, and so is its object
\* whenever the intersections that share that t all belong to one object.
C2_HitIndexAndT ==
    /\ HitIsSmallestNonNegative(xs)
    /\ HitIsSmallestNonNegative(xs2)
    /\ SameInserted =>
         /\ hit(xs).some = hit(xs2).some
         /\ hit(xs).some =>
              /\ hit(xs).idx = hit(xs2).idx
              /\ hit(xs).t = hit(xs2).t
              /\ HitObjectUntied(xs) => hit(xs).object = hit(xs2).object

\* both collections are complete, a negative t precedes the hit, the hit has
\* t = 0 and a larger t follows it
C2_Witness ==
    /\ SameInserted
    /\ Len(xs) >= 3
    /\ hit(xs).some /\ hit(xs).idx = 1 /\ hit(xs).t = 0
    /\ FLt(xs[1].t, 0) /\ FGt(xs[3].t, 0)
    /\ HitObjectUntied(xs)

\* C3 as claimed: after any sequence of push and append, every adjacent pair of
\* the collection satisfies left.t <= right.t.
C3_SortedByLe ==
    \A i \in 1..(Len(xs) - 1) : FLe(xs[i].t, xs[i + 1].t)

\* C3 as amended: after any sequence of push and append, every adjacent pair of
\* the collection satisfies left.t <= right.t or has a NaN on the right: the
\* numbers ascend and every NaN follows every number.
C3_SortedNaNLast ==
    \A i \in 1..(Len(xs) - 1) :
        FLe(xs[i].t, xs[i + 1].t) \/ is_nan(xs[i + 1].t)

\* a collection of three after push and append: two ascending numbers, then a NaN
C3_Witness ==
    /\ Len(xs) = 3
    /\ FLt(xs[1].t, xs[2].t)
    /\ is_nan(xs[3].t)

\* ------------------------------------------------------------- C4, C5
\* object u has been met an odd number of times among the first k of v
OddCount(v, k, u) ==
    Cardinality({ j \in 1..k : v[j].object.uuid = u }) % 2 = 1

\* where u was last met among the first k of v
LastAt(v, k, u) ==
    CHOOSE j \in 1..k :
        /\ v[j].object.uuid = u
        /\ \A m \in 1..k : v[m].object.uuid = u => m <= j

\* the refractive index of the object entered most recently among those the
\* first k of v have entered and not left; 1.0 when there is none
MediumAfter(v, k) ==
    LET ins == { u \in { v[j].object.uuid : j \in 1..k } : OddCount(v, k, u) } IN
    IF ins = {} THEN 10
    ELSE LET u == CHOOSE u \in ins :
                     \A w \in ins : LastAt(v, k, w) <= LastAt(v, k, u)
         IN v[LastAt(v, k, u)].object.material.refractive_index

\* (n1, n2) at the hit indices 0..5 of the list A, B, C, B, C, A
ExpectedABCBCA ==
    << <<10, 15>>, <<15, 20>>, <<20, 25>>, <<25, 25>>, <<25, 15>>, <<15, 10>> >>

\* C4: for a hit at index h of the list, n1 is the refractive index of the
\* object most recently entered and not yet left after xs[0..h-1] (1.0 if
\* none), n2 the same after xs[0..h]; on A, B, C, B, C, A the pairs are
\* (1,1.5), (1.5,2), (2,2.5), (2.5,2.5), (2.5,1.5), (1.5,1).
C4_N1N2 ==
    (wpc = "done" /\ hit_index < Len(wxs)) =>
        /\ n1 = MediumAfter(wxs, hit_index)
        /\ n2 = MediumAfter(wxs, hit_index + 1)
        /\ wxs = ListABCBCA =>
             <<n1, n2>> = ExpectedABCBCA[hit_index + 1]

\* the walk over A, B, C, B, C, A has returned for the hit at index 4, where
\* C leaves from the top of the stack (index 3 had B leave from under C)
C4_Witness ==
    /\ wpc = "done"
    /\ wxs = ListABCBCA
    /\ hit_index = 4
    /\ n1 = 25 /\ n2 = 15

\* o and p are two objects, equal in shape, material and transform
Twins(o, p) ==
    /\ o.uuid # p.uuid
    /\ [o EXCEPT !.uuid = 0] = [p EXCEPT !.uuid = 0]

OnStack(c, o) == \E k \in 1..Len(c) : c[k].uuid = o.uuid

\* C5: the stack is keyed by identity: while o is on the stack, an
\* intersection with an equal but separately constructed object p leaves o's
\* entry in place and toggles only p's own entry.
C5_KeyedByIdentity ==
    [][ \A o \in ObjsW, p \in ObjsW :
          ( /\ Twins(o, p)
            /\ wpc = "loop" /\ idx < Len(wxs)
            /\ wxs[idx + 1].object = p
            /\ OnStack(containers, o) )
          => /\ OnStack(containers', o)
             /\ OnStack(containers', p) = ~OnStack(containers, p)
             /\ Len(containers') =
                  IF OnStack(containers, p) THEN Len(containers) - 1
                  ELSE Len(containers) + 1 ]_vars

\* two equal objects are on the stack at once, as two entries
C5_Witness ==
    /\ OnStack(containers, ObjA)
    /\ OnStack(containers, ObjA2)
    /\ Twins(ObjA, ObjA2)
    /\ Len(containers) >= 2

\* ------------------------------------------------------------- C1
\* C1 as claimed: a shade_hit that returns has added the lighting once per
\* light and reflected_color and refracted_color exactly once each, whatever
\* the number of lights.
C1_ReflectedRefractedOnce ==
    ret.kind = "shade" =>
        /\ ret.frame.n_lighting = Len(lights)
        /\ ret.frame.n_reflected = 1
        /\ ret.frame.n_refracted = 1

\* ------------------------------------------------------------- C6
\* the calls of color_at in progress, outermost first
Frames == { stack[k] : k \in 1..Len(stack) }

RECURSIVE CallCost(_)
\* the most steps a color_at call with budget r takes, its return included:
\* the hit, then per light the two colours with a nested call each, then the
\* end of shade_hit
CallCost(r) ==
    2 + Len(lights) * (2 + 2 * (IF r > 0 THEN CallCost(r - 1) ELSE 0))

\* the most steps a call nested in a call with budget r takes
NestedCost(r) == IF r > 0 THEN CallCost(r - 1) ELSE 0

\* the most steps the call f has yet to take, those of the call it is
\* waiting for left out
FrameCost(f) ==
    LET pass == 2 + 2 * NestedCost(f.remaining)
        left == Len(lights) - f.li
    IN CASE f.pc = "start" -> CallCost(f.remaining)
         [] f.pc = "light" -> (left + 1) * pass + 1
         [] f.pc \in {"await_reflected", "refracted"} ->
                2 + NestedCost(f.remaining) + left * pass
         [] f.pc = "await_refracted" -> left * pass + 1

RECURSIVE StackCost(_)
\* the most steps the first k calls in progress have yet to take
StackCost(k) == IF k = 0 THEN 0 ELSE StackCost(k - 1) + FrameCost(stack[k])

\* C6: every nested color_at has a budget one less than its caller's and the
\* nesting never exceeds the outermost remaining + 1; color_at terminates: the
\* innermost call in progress is never the one waiting for a call, the nesting
\* explored is never what stops it, and every step lowers the number of steps
\* that can still follow, which is never negative.
C6_BudgetAndTermination ==
    /\ [](\A k \in 1..(Len(stack) - 1) :
              stack[k + 1].remaining = stack[k].remaining - 1)
    /\ [](Len(stack) >= 1 => Len(stack) <= stack[1].remaining + 1)
    /\ [](wphase = "render" =>
            /\ Len(stack) >= 1
            /\ Len(stack) < StackCap
            /\ Top.pc \in {"start", "light", "refracted"})
    /\ [](StackCost(Len(stack)) >= 0)
    /\ [][wphase = "render" =>
            StackCost(Len(stack))' < StackCost(Len(stack))]_vars

\* two facing fully reflective planes, the nesting at its limit remaining + 1
C6_Witness ==
    /\ Len(objects) = 2
    /\ \A k \in 1..2 : objects[k].material.reflective = 10
    /\ Len(stack) = MaxRemaining + 1
    /\ stack[1].remaining = MaxRemaining
    /\ Top.remaining = 0
    /\ Top.pc = "refracted"

\* ------------------------------------------------------------- C7
\* the call in progress below frame k of the stack
Callee(k) == stack[k + 1]

\* C7: reflected_color is black without a ray exactly when reflective is 0 or
\* remaining is 0; otherwise it calls color_at once, with remaining - 1, on
\* the ray from over_point along reflectv, and returns that colour times
\* reflective.
C7_ReflectedColor ==
    \A k \in 1..Len(stack) :
        LET f == stack[k]
            reflective == f.comps.object.material.reflective
            black == reflective = 0 \/ f.remaining = 0
        IN /\ (f.rcase = "black") => (black /\ f.reflected = Black)
           /\ (f.rcase \in {"called", "scaled"}) => ~black
           /\ f.n_rcalls = (IF black THEN 0 ELSE f.n_reflected)
           /\ (f.pc = "await_reflected") =>
                /\ f.rcase = "called"
                /\ k < Len(stack)
                /\ Callee(k).remaining = f.remaining - 1
                /\ Callee(k).ray.origin = f.comps.over_point
                /\ Callee(k).ray.dir = f.comps.reflectv
                /\ Callee(k).ray.s2 = f.ray.s2
           /\ (f.rcase = "scaled") =>
                f.reflected = (f.rgot * reflective) \div 10

\* a half reflective plane has scaled what its ray returned, and the call
\* that ray made on a reflective plane was black for want of budget
C7_Witness ==
    /\ Len(stack) = 1
    /\ Top.rcase = "scaled"
    /\ Top.comps.object.material.reflective = 5
    /\ Top.rgot > Black
    /\ Top.reflected = Top.rgot \div 2
    /\ ret.kind = "shade"
    /\ ret.frame.remaining = 0
    /\ ret.frame.rcase = "black"
    /\ ret.frame.comps.object.material.reflective > 0

\* ------------------------------------------------------------- C8
\* C8: refracted_color is black, without a call, when transparency is 0, when
\* remaining is 0 and under total internal reflection (sin2_t > 1); in every
\* other case it calls color_at once, with remaining - 1, from under_point,
\* and returns that colour times transparency.
C8_RefractedColor ==
    \A k \in 1..Len(stack) :
        LET f == stack[k]
            transparency == f.comps.object.material.transparency
            black == transparency = 0 \/ f.remaining = 0
            \* (n1/n2)^2 * (1 - cos_i^2) > 1, 1 - cos_i^2 being s2
            total == f.comps.n1 * f.comps.n1 * f.ray.s2[1]
                       > f.comps.n2 * f.comps.n2 * f.ray.s2[2]
        IN /\ (f.fcase = "black") => (black /\ f.refracted = Black)
           /\ (f.fcase = "total") => (~black /\ total /\ f.refracted = Black)
           /\ (f.fcase \in {"called", "scaled"}) => (~black /\ ~total)
           /\ f.n_fcalls <= f.n_refracted
           /\ (black \/ total) => f.n_fcalls = 0
           /\ (f.pc = "await_refracted") =>
                /\ f.fcase = "called"
                /\ k < Len(stack)
                /\ Callee(k).remaining = f.remaining - 1
                /\ Callee(k).ray.origin = f.comps.under_point
                /\ Callee(k).ray.dir = f.ray.dir
           /\ (f.fcase = "scaled") =>
                f.refracted = (f.fgot * transparency) \div 10

\* a ray that left glass for a thinner medium at a sine of 4/5 met total
\* internal reflection, with budget left and a transparent material
C8_Witness ==
    /\ Len(stack) >= 1
    /\ Top.fcase = "total"
    /\ Top.remaining > 0
    /\ Top.comps.object.material.transparency > 0
    /\ Top.comps.n1 = 15 /\ Top.comps.n2 = 10
    /\ Top.ray.s2 = <<16, 25>>

\* ------------------------------------------------------------- C9
\* every t an object of the world gives for ray r
AllT(r) ==
    UNION { { object_intersect(objects[k], r)[j].t :
                j \in 1..Len(object_intersect(objects[k], r)) } :
            k \in 1..Len(objects) }

\* C9: color_at returns black when no intersection of the world with the ray
\* has t >= 0; otherwise it shades the hit of the sorted list, and the index
\* handed to prepare_computations is the hit's own position in that list, every
\* intersection before it having a negative t.
C9_ColorAt ==
    /\ (ret.kind = "miss") =>
         /\ ret.color = Black
         /\ \A t \in AllT(ret.frame.ray) : t < 0
    /\ (ret.kind = "shade") => (\E t \in AllT(ret.frame.ray) : t >= 0)
    /\ \A f \in Frames :
         (f.pc # "start") =>
             /\ f.xs \in world_intersect(objects, f.ray)
             /\ f.index + 1 \in 1..Len(f.xs)
             /\ f.xs[f.index + 1].t >= 0
             /\ \A j \in 1..f.index : f.xs[j].t < 0
             /\ \A t \in AllT(f.ray) : t >= 0 => f.xs[f.index + 1].t <= t
             /\ f.comps.t = f.xs[f.index + 1].t
             /\ f.comps.object = f.xs[f.index + 1].object
             /\ f.comps.point = f.ray.origin + f.comps.t * f.ray.dir

\* the hit being shaded is the second of its list, behind an intersection with
\* negative t, and the ray it sent through the plane met only negative t's
C9_Witness ==
    /\ Len(stack) = 1
    /\ Top.pc # "start"
    /\ Top.index = 1
    /\ Top.xs[1].t < 0
    /\ ret.kind = "miss"
    /\ AllT(ret.frame.ray) # {}

\* ------------------------------------------------------------- C10
\* the light the frame f last computed a shadow for
LastLight(f) == lights[IF f.pc = "light" THEN f.li - 1 ELSE f.li]

\* some intersection of the ray from point toward source has
\* 0 <= t < distance(point, source)
Occluded(source, point) ==
    \E k \in 1..Len(objects) :
        LET y == objects[k].transform IN
        \/ point < y /\ y < source
        \/ source < y /\ y < point
        \/ y = point /\ source # point

\* C10: is_shadowed is true exactly when some intersection of the ray from
\* the point toward the light has 0 <= t < distance; an object behind the point
\* or at or behind the light casts no shadow.
C10_IsShadowed ==
    \A f \in Frames :
        (f.n_lighting >= 1) =>
            (f.shadowed <=> Occluded(LastLight(f).position, f.comps.over_point))

\* the outer call found its point lit, with one plane behind the point and the
\* other exactly at the light; the nested call found its point shadowed
C10_Witness ==
    /\ Len(stack) = 2
    /\ stack[1].n_lighting = 2
    /\ stack[1].pc = "await_reflected"
    /\ ~stack[1].shadowed
    /\ \E k \in 1..Len(objects) : objects[k].transform = lights[2].position
    /\ stack[2].n_lighting = 1
    /\ stack[2].pc # "light"
    /\ stack[2].shadowed

\* ------------------------------------------------------------- Object::intersect
\* Rays and objects in three dimensions.  A Point or Vector is <<x, y, z>>;
\* positions are counted in units of 1.0, the components of a ray's direction
\* in halves of EPSILON (2 is EPSILON), and a ray parameter t in units of 1.0.
\* A Transform is here the vector of its translation.

\* 1.0 in halves of EPSILON
HalfEpsInv == 20000

\* f64 infinity
Inf == 1000000000

dot(u, v) == u[1] * v[1] + u[2] * v[2] + u[3] * v[3]

\* Point - Point
sub(p, q) == << p[1] - q[1], p[2] - q[2], p[3] - q[3] >>

\* f64::sqrt, on the squares of integers
sqrt(n) == CHOOSE k \in 0..n : k * k = n

\* num / den in f64, num being one power of the direction's unit short of
\* den: 0/0 is NaN, x/0 an infinity
div(num, den) ==
    IF den = 0
    THEN IF num = 0 THEN NaN ELSE IF num > 0 THEN Inf ELSE 0 - Inf
    ELSE IF den > 0 THEN (num * HalfEpsInv) \div den
    ELSE ((0 - num) * HalfEpsInv) \div (0 - den)

\* Object::sphere()
sphere(u) == [ plane(u) EXCEPT !.shape = "Sphere", !.transform = <<0, 0, 0>> ]

\* ray.transform(transform.inverse()) for a translation
local_ray_of(ray, transform) ==
    [ origin |-> sub(ray.origin, transform), direction |-> ray.direction ]

\* the sphere is missed: discriminant < 0.
tangent_missed(discriminant) == discriminant <= 0

sphere_missed(discriminant) == discriminant < 0

\* the plane is met: local_ray.direction.1.abs() >= EPSILON
plane_met(direction_y) == Abs(direction_y) >= 2

\* xs.push(first); xs.push(second) on an empty collection: the possible lists
push_two(first, second) ==
    UNION { push(v, second) : v \in push(<< >>, first) }

\* Object::intersect: the possible lists
intersect(o, ray) ==
    LET local_ray == local_ray_of(ray, o.transform) IN
    IF o.shape = "Sphere"
    THEN LET sphere_to_ray == sub(local_ray.origin, <<0, 0, 0>>)
             a == dot(local_ray.direction, local_ray.direction)
             b == 2 * dot(local_ray.direction, sphere_to_ray)
             c == dot(sphere_to_ray, sphere_to_ray) - 1
             discriminant == b * b - 4 * a * c
         IN IF sphere_missed(discriminant) THEN { << >> }
            ELSE push_two(Intersection(div(0 - b - sqrt(discriminant), 2 * a), o),
                          Intersection(div(0 - b + sqrt(discriminant), 2 * a), o))
    ELSE IF plane_met(local_ray.direction[2])
         THEN push(<< >>, Intersection(div(0 - local_ray.origin[2],
                                           local_ray.direction[2]), o))
         ELSE { << >> }

RECURSIVE append_all(_, _, _)
\* World::intersect, the for_each: the possible contents of xs once the
\* intersections of every object of objs are appended to v
append_all(v, objs, ray) ==
    IF Len(objs) = 0 THEN { v }
    ELSE UNION { append_all(w, Tail(objs), ray) :
                 w \in UNION { append(v, es) : es \in intersect(Head(objs), ray) } }

\* World::intersect in three dimensions: the possible lists
intersect_world(objs, ray) ==
    UNION { sort_unstable(v) : v \in append_all(<< >>, objs, ray) }

\* --- inputs
\* a unit sphere at the origin, one two units along z, the plane y = 0 and the
\* plane y = -1
Shapes ==
    { sphere(0), set_transform(sphere(0), <<0, 0, 2>>),
      set_transform(plane(0), <<0, 0, 0>>), set_transform(plane(0), <<0, -1, 0>>) }

\* one or two objects, each with the identity of its place in the scene
Scenes ==
    { << [o EXCEPT !.uuid = 1] >> : o \in Shapes }
        \cup { << [o EXCEPT !.uuid = 1], [p EXCEPT !.uuid = 2] >> :
               o \in Shapes, p \in Shapes }

\* along z or along y, at magnitudes of 0, EPSILON / 2, EPSILON and 2 EPSILON
Directions ==
    { <<0, 0, d>> : d \in {-2, 0, 1, 2, 4} } \cup { <<0, d, 0>> : d \in {-4, -2, 1, 2} }

Origins == { <<0, 0, -3>>, <<0, 1, -3>>, <<0, 2, -3>>, <<0, 0, 0>>, <<0, 3, 0>> }

Rays3 == { [origin |-> p, direction |-> d] : p \in Origins, d \in Directions }

StartIntersect ==
    /\ call = "start"
    /\ args \in { [objects |-> sc, ray |-> r] : sc \in Scenes, r \in Rays3 }
    /\ out = << >>

InitIntersect == IdleI /\ IdleW /\ IdleR /\ StartIntersect

\* o.intersect(ray), o the first object of the scene
ObjectIntersect ==
    /\ call = "start"
    /\ out' \in intersect(args.objects[1], args.ray)
    /\ call' = "Object::intersect"
    /\ UNCHANGED args
    /\ UNCHANGED <<varsI, varsW, varsR>>

\* World { objects, .. }.intersect(ray)
WorldIntersect ==
    /\ call = "start"
    /\ out' \in intersect_world(args.objects, args.ray)
    /\ call' = "World::intersect"
    /\ UNCHANGED args
    /\ UNCHANGED <<varsI, varsW, varsR>>

NextIntersect == ObjectIntersect \/ WorldIntersect

SpecIntersect == InitIntersect /\ [][NextIntersect]_vars

\* ------------------------------------------------------------- C11
\* v holds the elements of w, each as many times as w does
IsPermutation(v, w) ==
    /\ Len(v) = Len(w)
    /\ \E p \in Permutations(1..Len(v)) : \A k \in 1..Len(v) : v[k] = w[p[k]]

\* the numbers of v ascend and every NaN of v follows every number
Ascending(v) ==
    \A k \in 1..(Len(v) - 1) : FLe(v[k].t, v[k + 1].t) \/ is_nan(v[k + 1].t)

RECURSIVE Concatenations(_, _)
\* what object.intersect(ray) returns for each object of objs, end to end
Concatenations(objs, ray) ==
    IF Len(objs) = 0 THEN { << >> }
    ELSE { es \o rest : es \in intersect(Head(objs), ray),
                        rest \in Concatenations(Tail(objs), ray) }

\* C11: World.intersect(ray) returns a permutation of the concatenation of
\* object.intersect(ray) over the objects of the world, every intersection of
\* the list belonging to an object of the world, sorted ascending by t.
C11_WorldIntersect ==
    (call = "World::intersect") =>
        /\ \E w \in Concatenations(args.objects, args.ray) : IsPermutation(out, w)
        /\ \A k \in 1..Len(out) :
             \E j \in 1..Len(args.objects) : out[k].object = args.objects[j]
        /\ Ascending(out)

\* a plane met between the two intersections of a sphere that comes first in
\* the world: the sort has moved the plane's intersection forward
C11_Witness ==
    /\ call = "World::intersect"
    /\ Len(args.objects) = 2
    /\ args.objects[1].shape = "Sphere"
    /\ args.objects[2].shape = "Plane"
    /\ Len(out) = 3
    /\ out[1].object.uuid = 1 /\ out[2].object.uuid = 2 /\ out[3].object.uuid = 1
    /\ FLt(out[1].t, out[2].t) /\ FLt(out[2].t, out[3].t)

\* ------------------------------------------------------------- C12
\* b^2 - 4ac of the ray against the unit sphere of object o
Discriminant(o, ray) ==
    LET p == sub(ray.origin, o.transform)
        d == ray.direction
    IN 4 * dot(d, p) * dot(d, p) - 4 * dot(d, d) * (dot(p, p) - 1)

\* the ray's direction is the zero vector
ZeroDirection(ray) == ray.direction = <<0, 0, 0>>

\* how many intersections Object.intersect is to return
ExpectedCount(o, ray) ==
    IF o.shape = "Sphere"
    THEN IF Discriminant(o, ray) < 0 THEN 0 ELSE 2
    ELSE IF Abs(ray.direction[2]) < 2 THEN 0 ELSE 1

NaNAfterNumbers(v) ==
    \A j \in 1..Len(v), k \in 1..Len(v) :
        (is_nan(v[j].t) /\ ~is_nan(v[k].t)) => k < j

\* C13: after any sequence of push and append every intersection whose t is
\* NaN stands after every intersection whose t is a number, and hit() never
\* returns an intersection whose t is NaN.
C13_NaNSortsLast ==
    /\ NaNAfterNumbers(xs)
    /\ NaNAfterNumbers(xs2)
    /\ hit(xs).some => ~is_nan(hit(xs).t)
    /\ hit(xs2).some => ~is_nan(hit(xs2).t)

\* a number and two NaNs were inserted: the number is first and is the hit
C13_Witness ==
    /\ phase = "build"
    /\ Len(xs) = 3
    /\ FGe(xs[1].t, 0)
    /\ is_nan(xs[2].t) /\ is_nan(xs[3].t)
    /\ hit(xs).some /\ hit(xs).idx = 0

\* ------------------------------------------------------------- C14
\* the sorted list s with e put after every element that is not greater
InsertAfterEquals(s, e) ==
    LET n == Cardinality({ j \in 1..Len(s) : cmp(e, s[j]) # "Less" }) IN
    SubSeq(s, 1, n) \o << e >> \o SubSeq(s, n + 1, Len(s))

RECURSIVE StableSort(_)
\* v sorted with equal elements kept in the order they have in v
StableSort(v) ==
    IF Len(v) = 0 THEN << >>
    ELSE InsertAfterEquals(StableSort(SubSeq(v, 1, Len(v) - 1)), v[Len(v)])

\* C14 as claimed: intersections with equal t compare as equal whatever their
\* objects, and push and append keep the intersections of equal t in the order
\* of their insertion: the collection after the call is the stable sort of
\* the collection before it followed by the intersections inserted.
C14_StableTies ==
    /\ [](\A a \in Elems, b \in Elems :
             (~is_nan(a.t) /\ a.t = b.t) => cmp(a, b) = "Equal")
    /\ [][ (phase = "build" /\ xs' # xs) =>
             \/ \E e \in Elems : xs' = StableSort(Append(xs, e))
             \/ \E e1 \in Elems, e2 \in Elems :
                  xs' = StableSort(xs \o <<e1, e2>>) ]_vars

\* ------------------------------------------------------------- f64
\* The matrices hold floating-point numbers m * 2^e of Precision significant
\* bits, rounded to the nearest with ties to even as f64 is, at a reduced
\* width; the exponent is not bounded, and the sign of zero is not kept.
Precision == 12

Fin(m, e) == [k |-> "fin", m |-> m, e |-> e]

FNaN == [k |-> "nan", m |-> 0, e |-> 0]

FInf(s) == [k |-> "inf", m |-> s, e |-> 0]

Zero == Fin(0, 0)

\* the number m * 2^e rounded to Precision bits
round(m, e) ==
    LET a == Abs(m)
        s == IF m < 0 THEN -1 ELSE 1
    IN  IF a = 0 THEN Zero
        ELSE IF a < 2^(Precision - 1)
        THEN LET up == CHOOSE u \in 1..Precision :
                            a * 2^u >= 2^(Precision - 1) /\ a * 2^u < 2^Precision
             IN  Fin(s * a * 2^up, e - up)
        ELSE IF a < 2^Precision THEN Fin(m, e)
        ELSE LET sh == CHOOSE d \in 1..(Precision + 4) :
                            a \div 2^d >= 2^(Precision - 1) /\ a \div 2^d < 2^Precision
                 q == a \div 2^sh
                 r == a % 2^sh
                 half == 2^(sh - 1)
                 q1 == IF r > half \/ (r = half /\ q % 2 = 1) THEN q + 1 ELSE q
             IN  IF q1 = 2^Precision THEN Fin(s * 2^(Precision - 1), e + sh + 1)
                 ELSE Fin(s * q1, e + sh)

One == round(1, 0)

f_is_zero(a) == a.k = "fin" /\ a.m = 0

f_neg(a) == [a EXCEPT !.m = 0 - a.m]

f_abs(a) == [a EXCEPT !.m = Abs(a.m)]

\* a * b
f_mul(a, b) ==
    IF a.k = "nan" \/ b.k = "nan" THEN FNaN
    ELSE IF a.k = "inf" \/ b.k = "inf"
    THEN IF f_is_zero(a) \/ f_is_zero(b) THEN FNaN
         ELSE FInf(IF (a.m < 0) = (b.m < 0) THEN 1 ELSE -1)
    ELSE round(a.m * b.m, a.e + b.e)

\* a + b: a term below a quarter of the last place of the other is absorbed
f_add(a, b) ==
    IF a.k = "nan" \/ b.k = "nan" THEN FNaN
    ELSE IF a.k = "inf" /\ b.k = "inf" THEN (IF a.m = b.m THEN a ELSE FNaN)
    ELSE IF a.k = "inf" THEN a
    ELSE IF b.k = "inf" THEN b
    ELSE IF b.m = 0 THEN a
    ELSE IF a.m = 0 THEN b
    ELSE IF a.e - b.e > Precision + 2 THEN a
    ELSE IF b.e - a.e > Precision + 2 THEN b
    ELSE LET e == IF a.e < b.e THEN a.e ELSE b.e
         IN  round(a.m * 2^(a.e - e) + b.m * 2^(b.e - e), e)

\* a - b
f_sub(a, b) == f_add(a, f_neg(b))

\* a / b
f_div(a, b) ==
    IF a.k = "nan" \/ b.k = "nan" THEN FNaN
    ELSE IF a.k = "inf"
    THEN IF b.k = "inf" THEN FNaN
         ELSE FInf(IF (a.m < 0) = (b.m < 0) THEN 1 ELSE -1)
    ELSE IF b.k = "inf" THEN Zero
    ELSE IF b.m = 0
    THEN IF a.m = 0 THEN FNaN ELSE FInf(IF a.m < 0 THEN -1 ELSE 1)
    ELSE IF a.m = 0 THEN Zero
    ELSE LET n == Abs(a.m) * 2^(Precision + 1)
             q == n \div Abs(b.m)
             sticky == IF n % Abs(b.m) = 0 THEN 0 ELSE 1
             s == IF (a.m < 0) = (b.m < 0) THEN 1 ELSE -1
         IN  round(s * (2 * q + sticky), a.e - b.e - (Precision + 2))

\* a >= b, false when either is NaN
f_ge(a, b) ==
    IF a.k = "nan" \/ b.k = "nan" THEN FALSE
    ELSE IF a.k = "inf" /\ b.k = "inf" THEN a.m >= b.m
    ELSE f_sub(a, b).m >= 0

\* ------------------------------------------------------------- Matrix
\* a call returns a value or panics
Ok(v) == [panic |-> FALSE, value |-> v]

Panic == [panic |-> TRUE]

\* Body(v) for the value v of e, e being evaluated once
Let(e, Body(_)) == CHOOSE r \in { Body(v) : v \in {e} } : TRUE

\* a row or a matrix built entry by entry, the indices counted from 0 as in
\* the source: the entry i of Row4(F) is F(i)
Row4(F(_)) == << F(0), F(1), F(2), F(3) >>

\* Matrix([[..], [..], [..], [..]])
Matrix(rows) == rows

\* m[i][j]
at(m, i, j) == m[i + 1][j + 1]

\* Matrix::id()
id ==
    Matrix(<< <<One, Zero, Zero, Zero>>, <<Zero, One, Zero, Zero>>,
              <<Zero, Zero, One, Zero>>, <<Zero, Zero, Zero, One>> >>)

\* impl Mul for Matrix
matrix_mul(m, n) ==
    Row4(LAMBDA i : Row4(LAMBDA j :
        f_add(f_add(f_add(f_mul(at(m, i, 0), at(n, 0, j)),
                          f_mul(at(m, i, 1), at(n, 1, j))),
                    f_mul(at(m, i, 2), at(n, 2, j))),
              f_mul(at(m, i, 3), at(n, 3, j)))))

\* impl Mul<Point> for Matrix, a Point being <<x, y, z>>
matrix_mul_point(a, rhs) ==
    LET coordinate(i) ==
            f_add(f_add(f_add(f_mul(at(a, i, 0), rhs[1]), f_mul(at(a, i, 1), rhs[2])),
                        f_mul(at(a, i, 2), rhs[3])),
                  f_mul(at(a, i, 3), One))
    IN  << coordinate(0), coordinate(1), coordinate(2) >>

\* the choice after the entry n = 4 * j + k is visited: that entry if its row
\* and column are free and it is at least as large as the choice so far
better(minv, ipiv, n, best) ==
    IF /\ ipiv[(n \div 4) + 1] # 1
       /\ ipiv[(n % 4) + 1] = 0
       /\ f_ge(f_abs(at(minv, n \div 4, n % 4)), best.big)
    THEN [big |-> f_abs(at(minv, n \div 4, n % 4)), irow |-> n \div 4, icol |-> n % 4]
    ELSE best

RECURSIVE search(_, _, _, _)
\* the pivot search of one pass of Matrix::inverse: the entries minv[j][k] are
\* visited row by row, n being the next, and best the choice so far
search(minv, ipiv, n, best) ==
    IF n = 16 THEN best
    ELSE Let(better(minv, ipiv, n, best), LAMBDA b : search(minv, ipiv, n + 1, b))

\* pass i of Matrix::inverse: choose the pivot, swap its row into place, panic
\* on a zero pivot, scale the pivot row and reduce the other rows
pass(st, i) ==
    Let(search(st.minv, st.ipiv, 0, [big |-> Zero, irow |-> 0, icol |-> 0]),
        LAMBDA p :
    Let([st.minv EXCEPT ![p.irow + 1] = st.minv[p.icol + 1],
                        ![p.icol + 1] = st.minv[p.irow + 1]],
        LAMBDA swapped :
    Let(f_div(One, at(swapped, p.icol, p.icol)),
        LAMBDA pivinv :
    Let(Row4(LAMBDA k :
            f_mul(IF k = p.icol THEN One ELSE at(swapped, p.icol, k), pivinv)),
        LAMBDA pivrow :
    IF f_is_zero(at(swapped, p.icol, p.icol)) THEN Panic
    ELSE [ panic |-> FALSE,
           minv |-> Row4(LAMBDA j :
                       IF j = p.icol THEN pivrow
                       ELSE Row4(LAMBDA k :
                               f_sub(IF k = p.icol THEN Zero ELSE at(swapped, j, k),
                                     f_mul(pivrow[k + 1], at(swapped, j, p.icol))))),
           ipiv |-> [st.ipiv EXCEPT ![p.icol + 1] = @ + 1],
           indxr |-> [st.indxr EXCEPT ![i + 1] = p.irow],
           indxc |-> [st.indxc EXCEPT ![i + 1] = p.icol] ]))))

RECURSIVE passes(_, _)
\* the passes i, i + 1, .. 3
passes(st, i) ==
    IF i = 4 THEN st
    ELSE Let(pass(st, i),
             LAMBDA next : IF next.panic THEN Panic ELSE passes(next, i + 1))

RECURSIVE unswap(_, _, _, _)
\* the column swaps that undo the row swaps, for j, j - 1, .. 0
unswap(minv, indxr, indxc, j) ==
    IF j < 0 THEN minv
    ELSE Let(Row4(LAMBDA k :
                 [minv[k + 1] EXCEPT ![indxr[j + 1] + 1] = at(minv, k, indxc[j + 1]),
                                     ![indxc[j + 1] + 1] = at(minv, k, indxr[j + 1])]),
             LAMBDA swapped : unswap(swapped, indxr, indxc, j - 1))

\* Matrix::inverse
inverse(m) ==
    Let(passes([ panic |-> FALSE, minv |-> m, ipiv |-> <<0, 0, 0, 0>>,
                 indxr |-> <<0, 0, 0, 0>>, indxc |-> <<0, 0, 0, 0>> ], 0),
        LAMBDA st :
    IF st.panic THEN Panic ELSE Ok(unswap(st.minv, st.indxr, st.indxc, 3)))

\* ------------------------------------------------------------- Transform
\* Transform::translation
translation(x, y, z) ==
    [ m |-> Matrix(<< <<One, Zero, Zero, x>>, <<Zero, One, Zero, y>>,
                      <<Zero, Zero, One, z>>, <<Zero, Zero, Zero, One>> >>),
      minv |-> Matrix(<< <<One, Zero, Zero, f_neg(x)>>, <<Zero, One, Zero, f_neg(y)>>,
                         <<Zero, Zero, One, f_neg(z)>>, <<Zero, Zero, Zero, One>> >>) ]

\* Transform::scaling
scaling(x, y, z) ==
    [ m |-> Matrix(<< <<x, Zero, Zero, Zero>>, <<Zero, y, Zero, Zero>>,
                      <<Zero, Zero, z, Zero>>, <<Zero, Zero, Zero, One>> >>),
      minv |-> Matrix(<< <<f_div(One, x), Zero, Zero, Zero>>,
                         <<Zero, f_div(One, y), Zero, Zero>>,
                         <<Zero, Zero, f_div(One, z), Zero>>,
                         <<Zero, Zero, Zero, One>> >>) ]

\* angle.cos() and angle.sin(), the angle counted in quarter turns
cos(angle) == IF angle % 4 = 0 THEN One ELSE IF angle % 4 = 2 THEN f_neg(One) ELSE Zero

sin(angle) == IF angle % 4 = 1 THEN One ELSE IF angle % 4 = 3 THEN f_neg(One) ELSE Zero

\* Transform::rotation_x
rotation_x(angle) ==
    [ m |-> Matrix(<< <<One, Zero, Zero, Zero>>,
                      <<Zero, cos(angle), f_neg(sin(angle)), Zero>>,
                      <<Zero, sin(angle), cos(angle), Zero>>,
                      <<Zero, Zero, Zero, One>> >>),
      minv |-> Matrix(<< <<One, Zero, Zero, Zero>>,
                         <<Zero, cos(angle), sin(angle), Zero>>,
                         <<Zero, f_neg(sin(angle)), cos(angle), Zero>>,
                         <<Zero, Zero, Zero, One>> >>) ]

\* Transform::rotation_y
rotation_y(angle) ==
    [ m |-> Matrix(<< <<cos(angle), Zero, sin(angle), Zero>>,
                      <<Zero, One, Zero, Zero>>,
                      <<f_neg(sin(angle)), Zero, cos(angle), Zero>>,
                      <<Zero, Zero, Zero, One>> >>),
      minv |-> Matrix(<< <<cos(angle), Zero, f_neg(sin(angle)), Zero>>,
                         <<Zero, One, Zero, Zero>>,
                         <<sin(angle), Zero, cos(angle), Zero>>,
                         <<Zero, Zero, Zero, One>> >>) ]

\* Transform::rotation_z
rotation_z(angle) ==
    [ m |-> Matrix(<< <<cos(angle), f_neg(sin(angle)), Zero, Zero>>,
                      <<sin(angle), cos(angle), Zero, Zero>>,
                      <<Zero, Zero, One, Zero>>,
                      <<Zero, Zero, Zero, One>> >>),
      minv |-> Matrix(<< <<cos(angle), sin(angle), Zero, Zero>>,
                         <<f_neg(sin(angle)), cos(angle), Zero, Zero>>,
                         <<Zero, Zero, One, Zero>>,
                         <<Zero, Zero, Zero, One>> >>) ]

\* the forward matrix Transform::shearing builds
shear_matrix(xy, xz, yx, yz, zx, zy) ==
    Matrix(<< <<One, xy, xz, Zero>>, <<yx, One, yz, Zero>>,
              <<zx, zy, One, Zero>>, <<Zero, Zero, Zero, One>> >>)

\* Transform::shearing: a Transform, or the panic of Matrix::inverse
shearing(xy, xz, yx, yz, zx, zy) ==
    Let(shear_matrix(xy, xz, yx, yz, zx, zy), LAMBDA m :
    Let(inverse(m), LAMBDA minv :
    IF minv.panic THEN Panic ELSE Ok([m |-> m, minv |-> minv.value])))

\* A * B with the inverses multiplied in the same order as the matrices
transform_mul_unreversed(self, rhs) ==
    [ m |-> matrix_mul(self.m, rhs.m), minv |-> matrix_mul(self.minv, rhs.minv) ]

\* impl Mul for Transform
transform_mul(self, rhs) ==
    [ m |-> matrix_mul(self.m, rhs.m), minv |-> matrix_mul(rhs.minv, self.minv) ]

\* Transform::inverse, were the inverse matrix computed anew
transform_inverse_recomputed(self) ==
    Let(inverse(self.minv), LAMBDA again :
    [ m |-> self.minv, minv |-> IF again.panic THEN self.m ELSE again.value ])

\* Transform::inverse
transform_inverse(self) == [ m |-> self.minv, minv |-> self.m ]

\* the parameters the constructors are called with
TranslationValues == { f_neg(One), Zero, round(2, 0) }

ScalingValues == { Zero, round(1, -1), One, round(-2, 0) }

Angles == 0..3

ShearValues == { Zero, round(1, -2), One, round(5, 0) }

\* the transforms that are composed, and the points they are applied to
Samples ==
    { translation(round(2, 0), Zero, f_neg(One)),
      translation(Zero, round(2, 0), Zero),
      scaling(round(2, 0), One, round(1, -1)),
      scaling(round(-2, 0), round(-2, 0), One),
      scaling(Zero, One, One),
      rotation_x(1), rotation_y(1), rotation_z(3), rotation_z(2),
      shearing(One, Zero, Zero, Zero, Zero, Zero).value,
      shearing(Zero, Zero, Zero, round(1, -2), Zero, One).value,
      shearing(Zero, round(1, -2), One, Zero, round(5, 0), One).value }

Points == { <<One, Zero, One>>, <<round(2, 0), round(3, 0), round(-4, 0)>> }

StartTransform ==
    /\ call = "start"
    /\ args = << >>
    /\ out = << >>

InitTransform == IdleI /\ IdleW /\ IdleR /\ StartTransform

Translation ==
    /\ call = "start"
    /\ \E x \in TranslationValues, y \in TranslationValues, z \in TranslationValues :
          /\ args' = <<x, y, z>>
          /\ out' = Ok(translation(x, y, z))
    /\ call' = "translation"
    /\ UNCHANGED <<varsI, varsW, varsR>>

Scaling ==
    /\ call = "start"
    /\ \E x \in ScalingValues, y \in ScalingValues, z \in ScalingValues :
          /\ args' = <<x, y, z>>
          /\ out' = Ok(scaling(x, y, z))
    /\ call' = "scaling"
    /\ UNCHANGED <<varsI, varsW, varsR>>

RotationX ==
    /\ call = "start"
    /\ \E angle \in Angles :
          /\ args' = <<angle>>
          /\ out' = Ok(rotation_x(angle))
    /\ call' = "rotation_x"
    /\ UNCHANGED <<varsI, varsW, varsR>>

RotationY ==
    /\ call = "start"
    /\ \E angle \in Angles :
          /\ args' = <<angle>>
          /\ out' = Ok(rotation_y(angle))
    /\ call' = "rotation_y"
    /\ UNCHANGED <<varsI, varsW, varsR>>

RotationZ ==
    /\ call = "start"
    /\ \E angle \in Angles :
          /\ args' = <<angle>>
          /\ out' = Ok(rotation_z(angle))
    /\ call' = "rotation_z"
    /\ UNCHANGED <<varsI, varsW, varsR>>

Shearing ==
    /\ call = "start"
    /\ \E xy \in ShearValues, xz \in ShearValues, yx \in ShearValues,
          yz \in ShearValues, zx \in ShearValues, zy \in ShearValues :
          /\ args' = <<xy, xz, yx, yz, zx, zy>>
          /\ out' = shearing(xy, xz, yx, yz, zx, zy)
    /\ call' = "shearing"
    /\ UNCHANGED <<varsI, varsW, varsR>>

\* a * b, and the point the product is then applied to
Compose ==
    /\ call = "start"
    /\ \E a \in Samples, b \in Samples, p \in Points :
          /\ args' = [a |-> a, b |-> b, p |-> p]
          /\ out' = Ok(transform_mul(a, b))
    /\ call' = "mul"
    /\ UNCHANGED <<varsI, varsW, varsR>>

\* a.inverse()
Inverse ==
    /\ call = "start"
    /\ \E a \in Samples :
          /\ args' = [a |-> a]
          /\ out' = Ok(transform_inverse(a))
    /\ call' = "inverse"
    /\ UNCHANGED <<varsI, varsW, varsR>>

NextTransform ==
    \/ Inverse
    \/ Translation
    \/ Scaling
    \/ RotationX
    \/ RotationY
    \/ RotationZ
    \/ Shearing
    \/ Compose

SpecTransform == InitTransform /\ [][NextTransform]_vars

\* ------------------------------------------------------------- C15
\* the rational a finite number stands for, in quarters
Quarters(a) == IF a.e >= -2 THEN a.m * 2^(a.e + 2) ELSE a.m \div 2^(0 - (a.e + 2))

\* the determinant of the upper left 3x3 block of m, times 4^3: that of m
\* itself when the last row and column of m are those of the identity
Determinant(m) ==
    LET v(i, j) == Quarters(at(m, i, j)) IN
      v(0, 0) * (v(1, 1) * v(2, 2) - v(1, 2) * v(2, 1))
    - v(0, 1) * (v(1, 0) * v(2, 2) - v(1, 2) * v(2, 0))
    + v(0, 2) * (v(1, 0) * v(2, 1) - v(1, 1) * v(2, 0))

\* a and b differ by at most a half: the products of this model that are
\* the identity up to rounding are within a quarter of it
Near(a, b) ==
    LET d == f_abs(f_sub(a, b)) IN d.k = "fin" /\ f_ge(round(1, -1), d)

NearIdentity(m) == \A i \in 0..3, j \in 0..3 : Near(at(m, i, j), at(id, i, j))

Constructors ==
    { "translation", "scaling", "rotation_x", "rotation_y", "rotation_z", "shearing" }

\* C15 as claimed: every Transform a constructor returns, for whatever
\* parameters it accepts without panicking, has m * minv equal to the
\* identity (here: up to rounding), a scaling by a zero factor included.
C15_ConstructorsPair ==
    (call \in Constructors /\ ~out.panic) =>
        NearIdentity(matrix_mul(out.value.m, out.value.minv))

\* ------------------------------------------------------------- C16
\* a and b differ by no more than sixteen units in the last place of 1.0
Close(a, b) ==
    LET d == f_abs(f_sub(a, b)) IN d.k = "fin" /\ f_ge(round(1, 4 - Precision), d)

CloseMatrix(m, n) == \A i \in 0..3, j \in 0..3 : Close(at(m, i, j), at(n, i, j))

ClosePoint(p, q) == \A c \in 1..3 : Close(p[c], q[c])

\* A and B, each with m * minv the identity up to rounding, are composed
Paired ==
    /\ call = "mul"
    /\ CloseMatrix(matrix_mul(args.a.m, args.a.minv), id)
    /\ CloseMatrix(matrix_mul(args.b.m, args.b.minv), id)

\* C16: for Transforms A and B with A.m * A.minv = I and B.m * B.minv = I the
\* product A * B has m = A.m * B.m and minv = B.minv * A.minv, its m * minv is
\* the identity, and applying A * B to a point is applying B and then A; the
\* identity and the point are met up to rounding, the two matrices exactly.
C16_Composition ==
    Paired =>
        /\ out.value.m = matrix_mul(args.a.m, args.b.m)
        /\ out.value.minv = matrix_mul(args.b.minv, args.a.minv)
        /\ CloseMatrix(matrix_mul(out.value.m, out.value.minv), id)
        /\ ClosePoint(matrix_mul_point(out.value.m, args.p),
                      matrix_mul_point(args.a.m, matrix_mul_point(args.b.m, args.p)))

\* a translation times a scaling: the product moves the point to where the
\* scaling and then the translation move it, which is not where the
\* translation and then the scaling do
C16_Witness ==
    /\ Paired
    /\ args.a = translation(round(2, 0), Zero, f_neg(One))
    /\ args.b = scaling(round(2, 0), One, round(1, -1))
    /\ matrix_mul(out.value.m, out.value.minv) = id
    /\ matrix_mul_point(out.value.m, args.p)
         = matrix_mul_point(args.a.m, matrix_mul_point(args.b.m, args.p))
    /\ ~ClosePoint(matrix_mul_point(out.value.m, args.p),
                   matrix_mul_point(args.b.m, matrix_mul_point(args.a.m, args.p)))

\* ------------------------------------------------------------- C17
\* C17 as claimed: Matrix::inverse panics on every singular matrix, so that
\* shearing panics whenever the matrix it builds is singular.
C17_SingularPanics ==
    (/\ call = "shearing"
     /\ Determinant(shear_matrix(args[1], args[2], args[3], args[4], args[5], args[6])) = 0)
        => out.panic

\* ------------------------------------------------------------- Material::lighting
\* the materials lit, the intensities of the light, and the two dot products
\* of unit vectors (tenths)
LitMaterials ==
    { DefaultMaterial,
      set_specular(set_diffuse(set_ambient(DefaultMaterial, 3), 7), 2) }

Intensities == { White, White \div 2 }

LightDotNormals == { -10, -5, 0, 5, 10 }

ReflectDotEyes == { -10, 0, 5, 10 }

StartLighting ==
    /\ call = "start"
    /\ args \in [ m : LitMaterials,
                  light : { PointLight(0, c) : c \in Intensities },
                  light_dot_normal : LightDotNormals,
                  reflect_dot_eye : ReflectDotEyes,
                  in_shadow : BOOLEAN ]
    /\ out = << >>

InitLighting == IdleI /\ IdleW /\ IdleR /\ StartLighting

\* m.lighting(object, light, point, eyev, normalv, in_shadow)
Lighting ==
    /\ call = "start"
    /\ out' = lighting(args.m, args.light, args.light_dot_normal,
                       args.reflect_dot_eye, args.in_shadow)
    /\ call' = "lighting"
    /\ UNCHANGED args
    /\ UNCHANGED <<varsI, varsW, varsR>>

NextLighting == Lighting

SpecLighting == InitLighting /\ [][NextLighting]_vars

\* ------------------------------------------------------------- C18
\* effective_color * ambient for the call in args
AmbientTerm == Mul(MulC(args.m.color, args.light.intensity), args.m.ambient)

\* effective_color * diffuse * light_dot_normal for the call in args
DiffuseTerm ==
    Mul(Mul(MulC(args.m.color, args.light.intensity), args.m.diffuse),
        args.light_dot_normal)

\* C18: lighting returns the ambient term alone (diffuse and specular black)
\* whenever in_shadow is true or lightv.normalv < 0; when neither holds and
\* reflectv.eyev <= 0 the specular term is black: ambient plus diffuse.
C18_Lighting ==
    call = "lighting" =>
        /\ (args.in_shadow \/ args.light_dot_normal < 0) => out = AmbientTerm
        /\ (/\ ~args.in_shadow
            /\ args.light_dot_normal >= 0
            /\ args.reflect_dot_eye <= 0) => out = AmbientTerm + DiffuseTerm

\* a point in shadow that faces the light and mirrors it into the eye: only
\* the ambient term is returned, though diffuse and specular would not be black
C18_Witness ==
    /\ call = "lighting"
    /\ args.in_shadow
    /\ args.light_dot_normal = 10
    /\ args.reflect_dot_eye = 10
    /\ DiffuseTerm > 0
    /\ args.m.specular > 0
    /\ out = AmbientTerm

\* ------------------------------------------------------------- Material setters
\* the f64 values the setters are called with (tenths)
Coefficients == { -5, 0, 5, 10, 20 }

\* Material::default()
StartMaterial ==
    /\ call = "default"
    /\ args = << >>
    /\ out = DefaultMaterial

InitMaterial == IdleI /\ IdleW /\ IdleR /\ StartMaterial

\* out.set_ambient(a), out being the material the last call returned
SetAmbient ==
    /\ \E a \in Coefficients :
          /\ args' = <<a>>
          /\ out' = set_ambient(out, a)
    /\ call' = "set_ambient"
    /\ UNCHANGED <<varsI, varsW, varsR>>

\* out.set_reflective(r)
SetReflective ==
    /\ \E r \in Coefficients :
          /\ args' = <<r>>
          /\ out' = set_reflective(out, r)
    /\ call' = "set_reflective"
    /\ UNCHANGED <<varsI, varsW, varsR>>

\* out.set_transparency(t)
SetTransparency ==
    /\ \E t \in Coefficients :
          /\ args' = <<t>>
          /\ out' = set_transparency(out, t)
    /\ call' = "set_transparency"
    /\ UNCHANGED <<varsI, varsW, varsR>>

\* out.set_refractive_index(ri)
SetRefractiveIndex ==
    /\ \E ri \in Coefficients :
          /\ args' = <<ri>>
          /\ out' = set_refractive_index(out, ri)
    /\ call' = "set_refractive_index"
    /\ UNCHANGED <<varsI, varsW, varsR>>

NextMaterial ==
    \/ SetAmbient
    \/ SetReflective
    \/ SetTransparency
    \/ SetRefractiveIndex

SpecMaterial == InitMaterial /\ [][NextMaterial]_vars

\* ------------------------------------------------------------- C19
\* C19 as claimed: every Material reached from Material::default() by setter
\* calls has 0 <= reflective <= 1, 0 <= transparency <= 1 and
\* refractive_index > 0.
C19_MaterialRanges ==
    /\ 0 <= out.reflective /\ out.reflective <= 10
    /\ 0 <= out.transparency /\ out.transparency <= 10
    /\ out.refractive_index > 0

\* ------------------------------------------------------------- Pattern
\* isize, at a reduced width that stays above the precision of the floats as
\* 64 stays above 53
IsizeBits == 16

\* x.trunc() for a finite x
f_trunc(x) ==
    IF x.e >= 0 THEN x
    ELSE IF x.e < 0 - Precision THEN Zero
    ELSE IF x.m >= 0 THEN round(x.m \div 2^(0 - x.e), 0)
    ELSE round(0 - ((0 - x.m) \div 2^(0 - x.e)), 0)

\* x.floor() for a finite x
f_floor(x) ==
    IF x.e >= 0 THEN x
    ELSE IF x.e < 0 - Precision THEN (IF x.m < 0 THEN f_neg(One) ELSE Zero)
    ELSE round(x.m \div 2^(0 - x.e), 0)

\* x as isize, x holding a whole number: the cast saturates, and NaN is 0
as_isize(x) ==
    IF x.k = "nan" THEN 0
    ELSE IF x.k = "inf" \/ x.e > IsizeBits
    THEN (IF x.m < 0 THEN 0 - 2^(IsizeBits - 1) ELSE 2^(IsizeBits - 1) - 1)
    ELSE LET n == IF x.e >= 0 THEN x.m * 2^x.e ELSE x.m \div 2^(0 - x.e) IN
         IF n > 2^(IsizeBits - 1) - 1 THEN 2^(IsizeBits - 1) - 1
         ELSE IF n < 0 - 2^(IsizeBits - 1) THEN 0 - 2^(IsizeBits - 1)
         ELSE n

\* n % d on isize, d positive: the remainder has the sign of n
rem(n, d) == IF n >= 0 THEN n % d ELSE 0 - ((0 - n) % d)

\* Pattern::stripe_pattern
stripe_pattern(a, b) == [pattern |-> "Stripe", a |-> a, b |-> b]

\* Pattern::pattern_at for a stripe pattern, p being <<x, y, z>>
pattern_at(self, p) ==
    IF rem(as_isize(f_floor(p[1])), 2) = 0 THEN self.a ELSE self.b

\* the x of the points: around zero in halves, where the floats stop holding
\* every whole number, and at the ends of isize
StripeXs ==
    { round(h, -1) : h \in -5..5 }
      \cup { round(2^(Precision - 1) + 1, 0), round(2^Precision - 1, 0),
             round(2^Precision, 0), round(0 - 2^Precision, 0),
             round(2^(IsizeBits - 1) - 2^(IsizeBits - Precision), 0),
             round(2^(IsizeBits - 1), 0), round(0 - 2^(IsizeBits - 1), 0),
             round(2^IsizeBits, 0), round(0 - 2^IsizeBits, 0) }

StripeYZs == { Zero, One, round(2, 0) }

StartPattern ==
    /\ call = "start"
    /\ args \in [ pattern : { stripe_pattern(White, Black), stripe_pattern(Black, White) },
                  p : StripeXs \X StripeYZs \X StripeYZs ]
    /\ out = << >>

InitPattern == IdleI /\ IdleW /\ IdleR /\ StartPattern

\* pattern.pattern_at(p)
PatternAt ==
    /\ call = "start"
    /\ out' = pattern_at(args.pattern, args.p)
    /\ call' = "pattern_at"
    /\ UNCHANGED args
    /\ UNCHANGED <<varsI, varsW, varsR>>

NextPattern == PatternAt

SpecPattern == InitPattern /\ [][NextPattern]_vars

\* ------------------------------------------------------------- C20
\* the whole number floor(x), x finite
FloorOf(x) == IF x.e >= 0 THEN x.m * 2^x.e ELSE x.m \div 2^(0 - x.e)

\* the colour the claim gives the point of abscissa x
StripeColor(self, x) == IF FloorOf(x) % 2 = 0 THEN self.a ELSE self.b

OtherColor(self, c) == IF c = self.a THEN self.b ELSE self.a

\* floor(x) does not exceed the largest isize
BelowIsizeMax(x) == FloorOf(x) <= 2^(IsizeBits - 1) - 1

\* x + 1. is computed without rounding: the point one unit further exists
StepExact(x) == FloorOf(f_add(x, One)) = FloorOf(x) + 1

\* C20 as claimed: a stripe pattern (a, b) returns a at every point whose
\* floor(x) is even and b where it is odd, whatever the sign of x; the colour
\* does not depend on y or z; and the point one unit further along x has the
\* other colour.
C20_Stripe ==
    call = "pattern_at" =>
        /\ out = StripeColor(args.pattern, args.p[1])
        /\ \A y \in StripeYZs, z \in StripeYZs :
              pattern_at(args.pattern, <<args.p[1], y, z>>) = out
        /\ StepExact(args.p[1]) =>
              pattern_at(args.pattern, <<f_add(args.p[1], One), args.p[2], args.p[3]>>)
                = OtherColor(args.pattern, out)

\* C20 amended: the same for the points whose floor(x) does not exceed the
\* largest isize; the colour never depends on y or z.
C20_StripeInRange ==
    call = "pattern_at" =>
        /\ BelowIsizeMax(args.p[1]) => out = StripeColor(args.pattern, args.p[1])
        /\ \A y \in StripeYZs, z \in StripeYZs :
              pattern_at(args.pattern, <<args.p[1], y, z>>) = out
        /\ (BelowIsizeMax(args.p[1]) /\ StepExact(args.p[1])) =>
              pattern_at(args.pattern, <<f_add(args.p[1], One), args.p[2], args.p[3]>>)
                = OtherColor(args.pattern, out)

\* x = -1/2: floor(x) = -1 is odd and the colour is b, and one unit further,
\* at x = 1/2, it is a
C20_Witness ==
    /\ call = "pattern_at"
    /\ args.p[1] = round(-1, -1)
    /\ out = args.pattern.b
    /\ pattern_at(args.pattern, <<f_add(args.p[1], One), args.p[2], args.p[3]>>)
         = args.pattern.a

\* ------------------------------------------------------------- color_at, twice
\* One world, one ray and one budget, color_at called on them twice.
\* slice::sort_unstable is a function of the slice it is given: which of the
\* equal elements it puts first is not specified, but the same slice always
\* comes out in the same order.  The order is a choice made once for the
\* world: equal elements stay as they stand in the slice, or come out reversed.
TieOrders == { "kept", "reversed" }

Reverse(v) == [ k \in 1..Len(v) |-> v[Len(v) + 1 - k] ]

\* a sort that may order the equal elements anew at every call
sort_unstable_anew(order, v) == sort_unstable(v)

\* slice::sort_unstable as the function it is under the order chosen
sort_unstable_fn(order, v) ==
    { IF order = "kept" THEN StableSort(v) ELSE StableSort(Reverse(v)) }

\* World::intersect with that sort
world_intersect_fn(order, objs, ray) ==
    sort_unstable_fn(order, concat_intersections(objs, ray))

\* fully transparent, of the refractive index of the void, and dimmer than
\* the other materials under the same light
TransparentM == set_transparency(set_ambient(MatteM, 5), 10)

PlaneAt(u, m, y) == set_transform(set_material(plane(u), m), y)

\* two planes, on the same side of y = 0 or on both, coincident or not
TwoPlanes ==
    { << PlaneAt(1, m1, y1), PlaneAt(2, m2, y2) >> :
        m1 \in { MirrorM, GlassM, TransparentM },
        m2 \in { MirrorM, GlassM, TransparentM },
        y1 \in { 2, 4 }, y2 \in { -2, 2 } }

LightsAbove ==
    { << PointLight(6, White) >>, << PointLight(6, White), PointLight(0, White) >> }

\* a world as built, and the order its sorts follow
StartRender ==
    /\ objects \in TwoPlanes
    /\ lights \in LightsAbove
    /\ wphase = "setup"
    /\ stack = << >>
    /\ ret = NoReturn
    /\ result = Black
    /\ call = "world"
    /\ args \in { [ order |-> o ] : o \in TieOrders }
    /\ out = << >>

InitRender == IdleI /\ IdleW /\ StartRender

\* world.color_at(r, remaining), the first time
ColorAtFirst(r, remaining) ==
    /\ wphase = "setup"
    /\ call = "world"
    /\ wphase' = "render"
    /\ stack' = << NewFrame(r, remaining) >>
    /\ call' = "color_at"
    /\ args' = [ order |-> args.order, ray |-> r, remaining |-> remaining ]
    /\ UNCHANGED <<objects, lights, ret, result, out>>
    /\ UNCHANGED <<varsI, varsW>>

\* world.color_at(r, remaining) once more: out keeps what the first returned
ColorAtAgain ==
    /\ wphase = "done"
    /\ call = "color_at"
    /\ wphase' = "render"
    /\ stack' = << NewFrame(args.ray, args.remaining) >>
    /\ call' = "again"
    /\ out' = result
    /\ ret' = NoReturn
    /\ UNCHANGED <<objects, lights, result, args>>
    /\ UNCHANGED <<varsI, varsW>>

\* color_at: xs.hit() is None
ColorAtMissFn ==
    /\ wphase = "render" /\ Top.pc = "start"
    /\ \E v \in world_intersect_fn(args.order, objects, Top.ray) :
         /\ ~hit(v).some
         /\ Return("miss", Black)

\* color_at: the hit and its Computations; shade_hit begins its fold
ColorAtHitFn ==
    /\ wphase = "render" /\ Top.pc = "start"
    /\ \E v \in world_intersect_fn(args.order, objects, Top.ray) :
         /\ hit(v).some
         /\ LET h == hit(v)
                index == hit_index_of(h)
            IN Step([ Top EXCEPT
                 !.xs = v, !.index = index,
                 !.comps = prepare_computations(Intersection(h.t, h.object),
                                                Top.ray, index, v),
                 !.pc = "light" ])

NextRender ==
    \/ \E r \in FirstRays, remaining \in 0..MaxRemaining : ColorAtFirst(r, remaining)
    \/ ColorAtAgain
    \/ ColorAtMissFn
    \/ ColorAtHitFn
    \/ ShadeEnd
    \/ ReflectedBlack
    \/ ReflectedCall
    \/ RefractedBlack
    \/ RefractedTotal
    \/ RefractedCall

SpecRender == InitRender /\ [][NextRender]_vars

RECURSIVE isqrt(_, _, _)
\* the largest q of lo..hi with q * q <= n
isqrt(n, lo, hi) ==
    IF lo = hi THEN lo
    ELSE LET mid == (lo + hi + 1) \div 2
         IN  IF mid * mid <= n THEN isqrt(n, mid, hi) ELSE isqrt(n, lo, mid - 1)

\* f64::sqrt
f_sqrt(a) ==
    IF a.k = "nan" THEN FNaN
    ELSE IF a.k = "inf" THEN (IF a.m > 0 THEN a ELSE FNaN)
    ELSE IF a.m = 0 THEN Zero
    ELSE IF a.m < 0 THEN FNaN
    ELSE LET k == Precision + 2 + ((a.e + Precision) % 2)
             n == a.m * 2^k
             q == isqrt(n, 0, 2^(Precision + 2))
             sticky == IF q * q = n THEN 0 ELSE 1
         IN  round(2 * q + sticky, ((a.e - k) \div 2) - 1)

\* a < b, false when either is NaN
f_lt(a, b) ==
    IF a.k = "nan" \/ b.k = "nan" THEN FALSE
    ELSE IF a.k = "inf" /\ b.k = "inf" THEN a.m < b.m
    ELSE f_sub(a, b).m < 0

\* impl Add for Vector, impl Add<Vector> for Point
vector_add(u, v) == << f_add(u[1], v[1]), f_add(u[2], v[2]), f_add(u[3], v[3]) >>

\* impl Sub for Point, impl Sub<Vector> for Point
vector_sub(u, v) == << f_sub(u[1], v[1]), f_sub(u[2], v[2]), f_sub(u[3], v[3]) >>

\* impl Neg for Vector
vector_neg(v) == << f_neg(v[1]), f_neg(v[2]), f_neg(v[3]) >>

\* impl Mul<f64> for Vector
vector_mul(v, rhs) == << f_mul(v[1], rhs), f_mul(v[2], rhs), f_mul(v[3], rhs) >>

\* Vector::dot
vector_dot(u, v) ==
    f_add(f_add(f_mul(u[1], v[1]), f_mul(u[2], v[2])), f_mul(u[3], v[3]))

\* Vector::magnitude
magnitude(v) ==
    f_sqrt(f_add(f_add(f_mul(v[1], v[1]), f_mul(v[2], v[2])), f_mul(v[3], v[3])))

\* Vector::normalize
normalize(v) ==
    Let(v, LAMBDA self :
    Let(f_div(One, magnitude(self)), LAMBDA factor : vector_mul(self, factor)))

\* Vector::reflect: self - normal * 2 * self.dot(normal)
reflect(v, normal) ==
    Let(vector_mul(normal, round(2, 0)), LAMBDA twice :
    Let(vector_dot(v, normal), LAMBDA d :
    Let(vector_mul(twice, d), LAMBDA along : vector_sub(v, along))))

\* Matrix::transpose
transpose(m) == Row4(LAMBDA i : Row4(LAMBDA j : at(m, j, i)))

\* impl Mul<Vector> for Matrix
matrix_mul_vector(a, rhs) ==
    LET coordinate(i) ==
            f_add(f_add(f_add(f_mul(at(a, i, 0), rhs[1]), f_mul(at(a, i, 1), rhs[2])),
                        f_mul(at(a, i, 2), rhs[3])),
                  f_mul(at(a, i, 3), Zero))
    IN  << coordinate(0), coordinate(1), coordinate(2) >>

\* ------------------------------------------------------------- Computations
\* An object here is its shape and its Transform, the pair of matrices.
Shaped(shape, transform) == [ shape |-> shape, transform |-> transform ]

\* EPSILON = 1.0e-4 as a floating-point number
epsilon == f_div(One, round(10000, 0))

\* Ray::position
position(r, t) == vector_add(r.origin, vector_mul(r.direction, t))

\* Object::intersect: the t's pushed, in the order the sorted collection has
object_intersect_at(o, ray) ==
    Let(matrix_mul_point(o.transform.minv, ray.origin), LAMBDA origin :
    Let(matrix_mul_vector(o.transform.minv, ray.direction), LAMBDA direction :
        IF o.shape = "Sphere"
        THEN Let(vector_dot(direction, direction), LAMBDA a :
             Let(f_mul(round(2, 0), vector_dot(direction, origin)), LAMBDA b :
             Let(f_sub(vector_dot(origin, origin), One), LAMBDA c :
             Let(f_sub(f_mul(b, b), f_mul(f_mul(round(4, 0), a), c)),
                 LAMBDA discriminant :
                 IF f_lt(discriminant, Zero) THEN << >>
                 ELSE
             Let(f_div(f_sub(f_neg(b), f_sqrt(discriminant)),
                       f_mul(round(2, 0), a)), LAMBDA first :
             Let(f_div(f_add(f_neg(b), f_sqrt(discriminant)),
                       f_mul(round(2, 0), a)), LAMBDA second :
                 IF first.k = "nan" \/ f_lt(second, first)
                 THEN << second, first >>
                 ELSE << first, second >>))))))
        ELSE IF f_ge(f_abs(direction[2]), epsilon)
             THEN << f_div(f_neg(origin[2]), direction[2]) >>
             ELSE << >>))

\* Intersections::hit on those t's: the first that is >= 0
first_hit(ts) ==
    LET found == { k \in 1..Len(ts) : f_ge(ts[k], Zero) } IN
    IF found = {} THEN None
    ELSE LET k == CHOOSE k \in found : \A j \in found : k <= j
         IN  [ some |-> TRUE, t |-> ts[k] ]

\* Object::normal_at
normal_at(o, p) ==
    Let(matrix_mul_point(o.transform.minv, p), LAMBDA local_point :
    Let(IF o.shape = "Sphere"
        THEN vector_sub(local_point, <<Zero, Zero, Zero>>)
        ELSE <<Zero, One, Zero>>, LAMBDA local_normal :
    Let(matrix_mul_vector(transpose(o.transform.minv), local_normal),
        LAMBDA world_normal : normalize(world_normal))))

\* the Computations with the normal left as normal_at gives it
computations_unflipped(t, o, r) ==
    Let(position(r, t), LAMBDA point :
    Let(vector_neg(r.direction), LAMBDA eyev :
    Let(normal_at(o, point), LAMBDA normalv :
    Let(vector_mul(normalv, epsilon), LAMBDA offset :
        [ t |-> t, object |-> o, point |-> point, eyev |-> eyev,
          normalv |-> normalv,
          inside |-> f_lt(vector_dot(normalv, eyev), Zero),
          over_point |-> vector_add(point, offset),
          under_point |-> vector_sub(point, offset),
          reflectv |-> reflect(r.direction, normalv) ]))))

\* Intersection::prepare_computations from `let t = self.t` on, the
\* intersection being (t, o)
computations(t, o, r) ==
    Let(position(r, t), LAMBDA point :
    Let(vector_neg(r.direction), LAMBDA eyev :
    Let(normal_at(o, point), LAMBDA normal :
    Let(f_lt(vector_dot(normal, eyev), Zero), LAMBDA inside :
    Let(IF inside THEN vector_neg(normal) ELSE normal, LAMBDA normalv :
    Let(vector_mul(normalv, epsilon), LAMBDA offset :
        [ t |-> t, object |-> o, point |-> point, eyev |-> eyev,
          normalv |-> normalv,
          inside |-> inside,
          over_point |-> vector_add(point, offset),
          under_point |-> vector_sub(point, offset),
          reflectv |-> reflect(r.direction, normalv) ]))))))

\* --- the objects and the rays
Half == round(1, -1)

ObjectsAt ==
    { Shaped("Sphere", [ m |-> id, minv |-> id ]),
      Shaped("Sphere", translation(Zero, Zero, One)),
      Shaped("Sphere", scaling(round(2, 0), One, round(2, 0))),
      Shaped("Plane", [ m |-> id, minv |-> id ]),
      Shaped("Plane", scaling(Zero, One, One)) }

RaysAt ==
    { [ origin |-> << x, y, z >>, direction |-> d ] :
        x \in { Zero, Half },
        y \in { f_neg(One), Zero, Half, One },
        z \in { round(-5, 0), Zero },
        d \in { <<Zero, Zero, One>>, <<Zero, Zero, f_neg(One)>>,
                <<Zero, One, Zero>>, <<Zero, f_neg(One), Zero>>,
                <<Half, f_neg(One), Zero>> } }

StartComputations ==
    /\ call = "start"
    /\ args = << >>
    /\ out = << >>

InitComputations == IdleI /\ IdleW /\ IdleR /\ StartComputations

\* the hit of the ray r on the object o, as color_at finds it, and its
\* Computations
PrepareComputations ==
    /\ call = "start"
    /\ \E o \in ObjectsAt, r \in RaysAt :
         \E h \in { first_hit(object_intersect_at(o, r)) } :
             /\ h.some
             /\ call' = "prepare_computations"
             /\ args' = [ t |-> h.t, object |-> o, r |-> r ]
             /\ out' = computations(h.t, o, r)
    /\ UNCHANGED <<varsI, varsW, varsR>>

NextComputations == PrepareComputations

SpecComputations == InitComputations /\ [][NextComputations]_vars

\* ------------------------------------------------------------- C22
\* the normal of the object at the hit point, as normal_at returns it
UnflippedNormal == normal_at(args.object, position(args.r, args.t))

IsNumber(v) == \A c \in 1..3 : v[c].k # "nan"

\* inside is true exactly when the unflipped normal has a negative dot
\* product with eyev, normalv is then its negation, and reflectv, over_point
\* and under_point are those of normalv
FlippedWhenInside ==
    /\ out.inside <=> f_lt(vector_dot(UnflippedNormal, out.eyev), Zero)
    /\ out.normalv = (IF out.inside THEN vector_neg(UnflippedNormal)
                      ELSE UnflippedNormal)
    /\ out.reflectv = reflect(args.r.direction, out.normalv)
    /\ out.over_point = vector_add(out.point, vector_mul(out.normalv, epsilon))
    /\ out.under_point = vector_sub(out.point, vector_mul(out.normalv, epsilon))

C23_InverseSwaps ==
    /\ (call = "inverse") =>
          /\ out.value.m = args.a.minv
          /\ out.value.minv = args.a.m
          /\ transform_inverse(out.value) = args.a
    /\ (call = "mul") =>
          /\ transform_inverse(transform_inverse(out.value)) = out.value
          /\ transform_inverse(out.value)
                = transform_mul(transform_inverse(args.b), transform_inverse(args.a))

\* a product of a shear and a rotation, which do not commute, the shear's
\* inverse holding entries that are rounded
C23_Witness ==
    /\ call = "mul"
    /\ args.a = shearing(Zero, round(1, -2), One, Zero, round(5, 0), One).value
    /\ args.b = rotation_x(1)
    /\ transform_mul(args.a, args.b) # transform_mul(args.b, args.a)
    /\ transform_inverse(out.value) # out.value
    /\ transform_inverse(out.value).m = matrix_mul(args.b.minv, args.a.minv)

\* ------------------------------------------------------------- Canvas
\* A Color is <<r, g, b>>; a channel holds 0.0 or 1.0, which the canvas only
\* copies.  pixels is the Vec<f64>, its index i being position i + 1 here.
\* the largest width and height of a canvas
MaxSide == 2

\* the most write_pixel calls on one canvas
MaxWrites == 2

Color(r, g, b) == << r, g, b >>

\* Canvas::new
canvas_new(width, height, color) ==
    [ width |-> width, height |-> height,
      pixels |-> [ i \in 1..(width * height * 3) |->
                     IF color.some THEN color.value[((i - 1) % 3) + 1] ELSE 0 ] ]

\* the index range (y * width + x) * 3 .. (y * width + x + 1) * 3 lies in pixels
in_pixels(self, x, y) == (y * self.width + x + 1) * 3 <= Len(self.pixels)

\* write_pixel, were the rows as long as the canvas is high
write_pixel_by_height(self, x, y, color) ==
    LET from == (y * self.height + x) * 3 IN
    [ self EXCEPT !.pixels =
        [ i \in 1..Len(self.pixels) |->
            IF i - 1 >= from /\ i - 1 < from + 3 THEN color[i - from]
            ELSE self.pixels[i] ] ]

\* Canvas::write_pixel, the range being in pixels
write_pixel(self, x, y, color) ==
    LET from == (y * self.width + x) * 3 IN
    [ self EXCEPT !.pixels =
        [ i \in 1..Len(self.pixels) |->
            IF i - 1 >= from /\ i - 1 < from + 3 THEN color[i - from]
            ELSE self.pixels[i] ] ]

\* Canvas::pixel_at, the range being in pixels
pixel_at(self, x, y) ==
    LET from == (y * self.width + x) * 3 IN
    Color(self.pixels[from + 1], self.pixels[from + 2], self.pixels[from + 3])

Fills == { None, [ some |-> TRUE, value |-> Color(1, 0, 0) ],
           [ some |-> TRUE, value |-> Color(1, 1, 1) ] }

Inks == { Color(0, 1, 0), Color(1, 0, 0) }

StartCanvas ==
    /\ call = "start"
    /\ args = << >>
    /\ out = << >>

InitCanvas == IdleI /\ IdleW /\ IdleR /\ StartCanvas

\* Canvas::new(width, height, color)
CanvasNew ==
    /\ call = "start"
    /\ \E width \in 0..MaxSide, height \in 0..MaxSide, color \in Fills :
         /\ args' = [ color |-> color, writes |-> 0 ]
         /\ out' = Ok(canvas_new(width, height, color))
    /\ call' = "new"
    /\ UNCHANGED <<varsI, varsW, varsR>>

\* c.write_pixel(x, y, color); the slice index panics when out of range
WritePixel ==
    /\ call \in { "new", "write_pixel" }
    /\ args.writes < MaxWrites
    /\ \E x \in 0..MaxSide, y \in 0..MaxSide, color \in Inks :
         /\ args' = [ x |-> x, y |-> y, color |-> color, writes |-> args.writes + 1 ]
         /\ IF in_pixels(out.value, x, y)
            THEN call' = "write_pixel" /\ out' = Ok(write_pixel(out.value, x, y, color))
            ELSE call' = "panic" /\ out' = Panic
    /\ UNCHANGED <<varsI, varsW, varsR>>

NextCanvas == CanvasNew \/ WritePixel

SpecCanvas == InitCanvas /\ [][NextCanvas]_vars

\* ------------------------------------------------------------- C24
\* the coordinates of the canvas c
Coordinates(c) == (0..(c.width - 1)) \X (0..(c.height - 1))

\* C24: a new canvas returns its fill colour, black when none is given, at
\* every coordinate; after write_pixel(x, y, c) with x < width and y < height,
\* pixel_at(x, y) is c and pixel_at of every other coordinate of the canvas is
\* what it was before the call.
C24_WritePixelFrame ==
    /\ [](call = "new" =>
            \A p \in Coordinates(out.value) :
                pixel_at(out.value, p[1], p[2])
                  = (IF args.color.some THEN args.color.value ELSE Color(0, 0, 0)))
    /\ [][ (call' \in { "write_pixel", "panic" }
              /\ args'.x < out.value.width /\ args'.y < out.value.height) =>
             /\ call' = "write_pixel"
             /\ out'.value.width = out.value.width
             /\ out'.value.height = out.value.height
             /\ pixel_at(out'.value, args'.x, args'.y) = args'.color
             /\ \A p \in Coordinates(out.value) :
                   p # << args'.x, args'.y >> =>
                      pixel_at(out'.value, p[1], p[2]) = pixel_at(out.value, p[1], p[2])
         ]_vars

\* a canvas of 2 x 1 filled red after two writes: the second, at (0, 0), left
\* the green written first at (1, 0) as it was
C24_Witness ==
    /\ call = "write_pixel"
    /\ args.writes = 2
    /\ out.value.width = 2 /\ out.value.height = 1
    /\ args.x = 0 /\ args.y = 0
    /\ args.color = Color(1, 0, 0)
    /\ pixel_at(out.value, 0, 0) = Color(1, 0, 0)
    /\ pixel_at(out.value, 1, 0) = Color(0, 1, 0)

\* ------------------------------------------------------------- C25
\* C25: remaining is a usize: no call of color_at in progress has a budget
\* below 0, and reflected_color and refracted_color call color_at, with
\* remaining - 1, only when their own remaining is at least 1.
C25_NoUnderflow ==
    /\ [](\A f \in Frames : f.remaining >= 0)
    /\ [][ (Len(stack) >= 1 /\ Len(stack') = Len(stack) + 1) =>
             /\ Top.remaining >= 1
             /\ stack'[Len(stack')].remaining = Top.remaining - 1
             /\ stack'[Len(stack')].remaining >= 0 ]_vars

\* the color_at of a reflected ray, with no budget left, hit a transparent
\* surface: its refracted_color returned black without a call, and the caller
\* scaled the colour it got back
C25_Witness ==
    /\ Len(stack) = 1
    /\ Top.rcase = "scaled"
    /\ Top.remaining = 1
    /\ ret.kind = "shade"
    /\ ret.frame.remaining = 0
    /\ ret.frame.comps.object.material.transparency > 0
    /\ ret.frame.fcase = "black"
    /\ ret.frame.n_fcalls = 0

\* ------------------------------------------------------------- C26
\* impl PartialEq for Intersection: self.t == other.t
eq(a, b) == ~is_nan(a.t) /\ ~is_nan(b.t) /\ a.t = b.t

\* Ordering::reverse
Reversed(ordering) ==
    IF ordering = "Less" THEN "Greater"
    ELSE IF ordering = "Greater" THEN "Less"
    ELSE "Equal"

\* C26: for all intersections a and b of a collection, NaN's included,
\* cmp(a, b) is the reverse of cmp(b, a), and cmp(a, b) is Equal exactly when
\* a == b.
C26_TotalOrder ==
    \A i \in 1..Len(xs), j \in 1..Len(xs) :
        /\ cmp(xs[i], xs[j]) = Reversed(cmp(xs[j], xs[i]))
        /\ (cmp(xs[i], xs[j]) = "Equal") <=> eq(xs[i], xs[j])

\* ------------------------------------------------------------- C27
\* C27: at every point of the walk, idx intersections having been processed,
\* no identity is on the stack twice, the identities on it are those met an
\* odd number of times among the first idx intersections, and they stand in
\* the order of their latest entries.
C27_StackContents ==
    wpc \in { "loop", "done" } =>
        /\ \A i \in 1..Len(containers), j \in 1..Len(containers) :
              i # j => containers[i].uuid # containers[j].uuid
        /\ { containers[i].uuid : i \in 1..Len(containers) }
              = { u \in { wxs[j].object.uuid : j \in 1..idx } : OddCount(wxs, idx, u) }
        /\ \A i \in 1..Len(containers), j \in 1..Len(containers) :
              i < j => LastAt(wxs, idx, containers[i].uuid)
                         < LastAt(wxs, idx, containers[j].uuid)

\* A, B, C, B processed of A, B, C, B, C, A: B has left from between A and C,
\* and the stack is A, C
C27_Witness ==
    /\ wpc = "loop"
    /\ wxs = ListABCBCA
    /\ idx = 4
    /\ Len(containers) = 2
    /\ containers[1].uuid = ObjA.uuid
    /\ containers[2].uuid = ObjC.uuid

\* ------------------------------------------------------------- setters, chained
\* the longest chain of setters after the first
MaxChain == 2

\* Object::set_ambient, Object::set_diffuse
object_set_ambient(o, a) == [ o EXCEPT !.material.ambient = a ]

object_set_diffuse(o, d) == [ o EXCEPT !.material.diffuse = d ]

\* a setter taking self by value: the receiver stays as it was
setter_by_value(before, after) == [ self |-> before, ret |-> after ]

\* fn set_x(&mut self, x) -> Self { self.x = x; *self }: the receiver after
\* the call, and the copy returned, `after` being self with the field assigned
setter(before, after) == [ self |-> after, ret |-> after ]

\* self with the field the setter f assigns set to v
assigned(self, f, v) ==
    CASE f = "Object::set_transform" -> set_transform(self, v)
      [] f = "Object::set_ambient" -> object_set_ambient(self, v)
      [] f = "Object::set_diffuse" -> object_set_diffuse(self, v)
      [] f = "Material::set_ambient" -> set_ambient(self, v)
      [] f = "Material::set_reflective" -> set_reflective(self, v)
      [] f = "Material::set_transparency" -> set_transparency(self, v)

ObjectSetters == { "Object::set_transform", "Object::set_ambient", "Object::set_diffuse" }

MaterialSetters ==
    { "Material::set_ambient", "Material::set_reflective", "Material::set_transparency" }

SetterValues == { 5, 10 }

\* a stored object or material: let mut o = Object::plane(), Material::default()
StartSetters ==
    /\ call = "stored"
    /\ args \in { [ kind |-> ObjectSetters, before |-> plane(1), o |-> plane(1),
                    calls |-> << >> ],
                  [ kind |-> MaterialSetters, before |-> DefaultMaterial,
                    o |-> DefaultMaterial, calls |-> << >> ] }
    /\ out = << >>

InitSetters == IdleI /\ IdleW /\ IdleR /\ StartSetters

\* o.set_x(v): the receiver is the stored o
SetStored ==
    /\ call = "stored"
    /\ \E f \in args.kind, v \in SetterValues :
         LET r == setter(args.o, assigned(args.o, f, v)) IN
         /\ args' = [ args EXCEPT !.o = r.self, !.calls = << << f, v >> >> ]
         /\ out' = r.ret
    /\ call' = "first"
    /\ UNCHANGED <<varsI, varsW, varsR>>

\* (the value returned so far).set_y(v): the receiver is that temporary
SetChained ==
    /\ call \in { "first", "chained" }
    /\ Len(args.calls) <= MaxChain
    /\ \E f \in args.kind, v \in SetterValues :
         LET r == setter(out, assigned(out, f, v)) IN
         /\ args' = [ args EXCEPT !.calls = Append(@, << f, v >>) ]
         /\ out' = r.ret
    /\ call' = "chained"
    /\ UNCHANGED <<varsI, varsW, varsR>>

NextSetters == SetStored \/ SetChained

SpecSetters == InitSetters /\ [][NextSetters]_vars

\* ------------------------------------------------------------- C28
\* the field the setter f assigns, read from self
Field(self, f) ==
    CASE f = "Object::set_transform" -> self.transform
      [] f = "Object::set_ambient" -> self.material.ambient
      [] f = "Object::set_diffuse" -> self.material.diffuse
      [] f = "Material::set_ambient" -> self.ambient
      [] f = "Material::set_reflective" -> self.reflective
      [] f = "Material::set_transparency" -> self.transparency

\* the calls of the chain that assign the field of f, by position
CallsOf(f) == { k \in 1..Len(args.calls) : args.calls[k][1] = f }

\* the value the last call of the chain assigning the field of f gave it
LastAssigned(f) ==
    LET k == CHOOSE k \in CallsOf(f) : \A j \in CallsOf(f) : j <= k
    IN  args.calls[k][2]

\* C28: after o.set_X(a).set_Y(b)..., the value returned has every field as
\* the last setter assigning it left it and the others as o had them before
\* the chain; o itself has X = a and every other field as before.
C28_ChainedSetters ==
    call \in { "first", "chained" } =>
        \A f \in args.kind :
            /\ Field(out, f) = (IF CallsOf(f) = {} THEN Field(args.before, f)
                                ELSE LastAssigned(f))
            /\ Field(args.o, f) = (IF args.calls[1][1] = f THEN args.calls[1][2]
                                   ELSE Field(args.before, f))

\* o.set_ambient(0.5).set_transform(..) on a stored object: the value returned
\* has both, o has the ambient alone
C28_Witness ==
    /\ call = "chained"
    /\ args.calls = << << "Object::set_ambient", 5 >>, << "Object::set_transform", 10 >> >>
    /\ out.material.ambient = 5 /\ out.transform = 10
    /\ args.o.material.ambient = 5
    /\ args.o.transform = args.before.transform
    /\ args.o.transform # 10

\* ------------------------------------------------------------- Shape
\* Shape::new_sphere
new_sphere(center, radius) == [ center |-> center, radius |-> radius ]

\* Shape::intersect for Shape::Sphere { center, radius }
shape_intersect(self, ray) ==
    LET sphere_to_ray == vector_sub(ray.origin, self.center)
        a == vector_dot(ray.direction, ray.direction)
        b == f_mul(round(2, 0), vector_dot(ray.direction, sphere_to_ray))
        c == f_sub(vector_dot(sphere_to_ray, sphere_to_ray), One)
        discriminant == f_sub(f_mul(b, b), f_mul(f_mul(round(4, 0), a), c))
    IN  IF f_lt(discriminant, Zero) THEN << >>
        ELSE << Intersection(f_div(f_sub(f_neg(b), f_sqrt(discriminant)),
                                   f_mul(round(2, 0), a)), self),
                Intersection(f_div(f_add(f_neg(b), f_sqrt(discriminant)),
                                   f_mul(round(2, 0), a)), self) >>

\* --- the spheres and the rays
\* radius 1/2, 1 and 2, about the origin and about (0, 0, 1)
SpheresAt ==
    { new_sphere(<<Zero, Zero, z>>, radius) :
        z \in { Zero, One },
        radius \in { Half, One, round(2, 0) } }

\* rays along z and along x, and one at 45 degrees in the plane x = 0
ShapeRays ==
    { [ origin |-> << Zero, y, z >>, direction |-> d ] :
        y \in { Zero, Half, round(3, -2), One, round(3, -1), round(2, 0),
                round(3, 0) },
        z \in { round(-5, 0), Zero },
        d \in { <<Zero, Zero, One>>, <<One, Zero, Zero>>,
                <<Zero, f_neg(One), One>> } }

StartShape ==
    /\ call = "start"
    /\ args = << >>
    /\ out = << >>

InitShape == IdleI /\ IdleW /\ IdleR /\ StartShape

\* s.intersect(r)
ShapeIntersect ==
    /\ call = "start"
    /\ \E s \in SpheresAt, r \in ShapeRays :
         /\ call' = "Shape::intersect"
         /\ args' = [ s |-> s, r |-> r ]
         /\ out' = shape_intersect(s, r)
    /\ UNCHANGED <<varsI, varsW, varsR>>

NextShape == ShapeIntersect

SpecShape == InitShape /\ [][NextShape]_vars

\* ------------------------------------------------------------- C29
\* the closest distance of the ray's line to the centre exceeds the radius:
\* |p|^2 |d|^2 - (d.p)^2 > radius^2 |d|^2, p the origin seen from the centre
ClosestBeyondRadius(s, r) ==
    LET p == vector_sub(r.origin, s.center)
        dd == vector_dot(r.direction, r.direction)
        dp == vector_dot(r.direction, p)
    IN  f_lt(f_mul(f_mul(s.radius, s.radius), dd),
             f_sub(f_mul(vector_dot(p, p), dd), f_mul(dp, dp)))

\* C29: Shape::intersect on a sphere returns no intersection exactly when
\* the ray's closest distance to the centre exceeds the radius and two
\* otherwise, whatever the radius.
C29_HonoursRadius ==
    (call = "Shape::intersect") =>
        Len(out) = (IF ClosestBeyondRadius(args.s, args.r) THEN 0 ELSE 2)

\* the same for the spheres of radius 1 alone
C29_UnitRadius ==
    (call = "Shape::intersect" /\ args.s.radius = One) =>
        Len(out) = (IF ClosestBeyondRadius(args.s, args.r) THEN 0 ELSE 2)

\* ------------------------------------------------------------- C30
\* the objects of the world, each made opaque
OpaqueObjects ==
    [ k \in 1..Len(objects) |->
        set_material(objects[k], set_transparency(objects[k].material, 0)) ]

\* the objects strictly between the point and the source
Between(source, point) ==
    { k \in 1..Len(objects) :
        LET y == objects[k].transform IN
        (point < y /\ y < source) \/ (source < y /\ y < point) }

\* C30: the shadow that shade_hit gets from is_shadowed is the one the same
\* world gives with every object made opaque, and it is true exactly when
\* some t of the intersections of the shadow ray has 0 <= t < distance: the
\* materials of the objects do not enter.
C30_ShadowIgnoresMaterial ==
    \A f \in Frames :
        (f.n_lighting >= 1) =>
            LET source == LastLight(f).position
                point == f.comps.over_point
                r == shadow_ray(source, point)
                distance == shadow_distance(source, point)
            IN  /\ \A v \in world_intersect(OpaqueObjects, r) :
                     f.shadowed <=> is_shadowed(v, distance)
                /\ \A v \in world_intersect(objects, r) :
                     f.shadowed <=>
                         \E k \in 1..Len(v) : FGe(v[k].t, 0) /\ FLt(v[k].t, distance)

\* a point found shadowed with nothing but a fully transparent plane between
\* it and the light
C30_Witness ==
    \E f \in Frames :
        /\ f.n_lighting >= 1
        /\ f.shadowed
        /\ LET b == Between(LastLight(f).position, f.comps.over_point) IN
           /\ b # {}
           /\ \A k \in b : objects[k].material.transparency = 10
        /\ \A k \in 1..Len(objects) :
             objects[k].transform # f.comps.over_point

====
